---- MODULE Spec2Model ----
(***************************************************************************)
(* The interaction engine of the canvas spreadsheet (Sheet, SheetCopy.jsx) *)
(* as a state machine: one action per event handler, the React state of    *)
(* the component as the variables.  A handler reads the state of the       *)
(* render it was created in (unprimed variables) and its setState calls    *)
(* take effect together afterwards (primed variables).                     *)
(*                                                                         *)
(* Cell values are sequences of characters; JavaScript null is Null.       *)
(***************************************************************************)
EXTENDS Integers, Sequences, FiniteSets, TLC

VARIABLES
    selection,                 \* {x1, y1, x2, y2}, anchor and active corner
    knobArea,                  \* {x1, y1, x2, y2}, candidate area of a fill drag
    editCell,                  \* {x, y} of the cell under edit, (-1,-1) if none
    editValue,                 \* the edit buffer
    arrowKeyCommitMode,
    shiftKeyDown,
    knobDragInProgress,
    selectionInProgress,
    columnResize,              \* null or {startX, oldWidth, colIdx}
    rowResize,                 \* null or {startY, oldHeight, rowIdx}
    rowSelectionInProgress,
    columnSelectionInProgress,
    buttonClickMouseDownCoordinates,  \* {x, y, hitTarget}
    dataOffset,                \* {x, y}, scroll offset in whole cells
    canvasWidth,               \* from the resize observer
    canvasHeight,
    mouse,                     \* the pointing device: primary button held, last press
    changes,                   \* the batch handed to onChange by the last handler
    onChangeCalls,             \* how often the last handler called onChange
    notified,                  \* arguments of onSelectionChanged in the last handler
    scrollRequest,             \* {left, top} assigned to the overlay's scrollLeft and
                               \* scrollTop in the last step, -1 where nothing was assigned
    scrollTimers,              \* the 0 ms timers of changeSelection that have not run yet,
                               \* oldest first: the {left, top} each will assign
    clicked,                   \* the onClick callbacks the last handler invoked
    sizeRequest,               \* the size changes the last handler asked of the host
    steps,                     \* the number of events and timer tasks handled so far, a
                               \* press and its release counted as one
    clipboardText,             \* the text a paste event carries (pure-function runs)
    pasteDone,                 \* the paste of a pure-function run has been applied
    windowArgs,                \* {size, startingIndex, startingSize, visibleArea} of a window run
    windowResult,              \* the window computed from windowArgs, and by which version
    animationFrameId,          \* the frame the last repaint effect requested
    animationFrames,           \* the browser's animation frames: requested, pending, run, cancelled
    effectDue                  \* a render is committed and its repaint effect has not run yet

state == <<selection, knobArea, editCell, editValue, arrowKeyCommitMode, shiftKeyDown,
           knobDragInProgress, selectionInProgress, columnResize, rowResize,
           rowSelectionInProgress, columnSelectionInProgress,
           buttonClickMouseDownCoordinates, dataOffset>>
canvas == <<canvasWidth, canvasHeight>>
outputs == <<changes, onChangeCalls, notified, scrollRequest, scrollTimers, clicked, sizeRequest>>
pasteRun == <<clipboardText, pasteDone>>
windowRun == <<windowArgs, windowResult>>
repaint == <<animationFrameId, animationFrames, effectDue>>
vars == <<state, canvas, mouse, outputs, steps, pasteRun, windowRun, repaint>>

----------------------------------------------------------------------------
(* Constants of Sheet *)
knobSize == 6
rowHeaderWidth == 50
columnHeaderHeight == 22
xBinSize == 10
yBinSize == 10
scrollSpeed == 30
resizeColumnRowMouseThreshold == 4
minimumColumnWidth == 50
minimumRowHeight == 22
defaultCellWidth == 100
defaultCellHeight == 22
wholeSpan == 100               \* sel2.x = 100 / sel2.y = 100 on a header press

(* Bounds of the model *)
MaxSteps == 3                  \* events handled in one run

Null == <<"null">>
NoPoint == <<-1, -1>>
Max(a, b) == IF a > b THEN a ELSE b
Min(a, b) == IF a < b THEN a ELSE b
Abs(a) == IF a < 0 THEN -a ELSE a
Last(s) == s[Len(s)]

----------------------------------------------------------------------------
(* Props of the host.  A size prop is undefined, a number or an array.     *)
Undefined == [kind |-> "undefined"]
cellWidthProp == Undefined
cellHeightProp == Undefined
freezeColumns == 0
freezeRows == 0

createRowOrColumnPropFunction(sizeProp, defaultValue, cell) ==
    IF sizeProp.kind = "array"
    THEN IF cell >= 0 /\ cell < Len(sizeProp.arr)
         THEN sizeProp.arr[cell + 1]
         ELSE defaultValue
    ELSE IF sizeProp.kind = "function" THEN sizeProp.fn[cell]
    ELSE IF sizeProp.kind = "number" THEN sizeProp.num
    ELSE defaultValue

cellWidth(cell) == createRowOrColumnPropFunction(cellWidthProp, defaultCellWidth, cell)
cellHeight(cell) == createRowOrColumnPropFunction(cellHeightProp, defaultCellHeight, cell)

createCellPropFunction(cellProp, defaultValue, x, y) ==
    IF cellProp.kind = "array"
    THEN IF y >= 0 /\ y < Len(cellProp.arr)
         THEN IF x >= 0 /\ x < Len(cellProp.arr[y + 1])
              THEN cellProp.arr[y + 1][x + 1]
              ELSE defaultValue
         ELSE defaultValue
    ELSE IF cellProp.kind = "function" THEN cellProp.fn[<<x, y>>]
    ELSE IF cellProp.kind = "value" THEN cellProp.val
    ELSE defaultValue

(* The host's data: 2-D arrays, rows of cells.  The top-left 2x2 block of  *)
(* the source data is [[1,2],[3,4]].                                       *)
sourceDataProp ==
    [kind |-> "array",
     arr |-> << << <<"1">>, <<"2">>, <<"1","3">>, <<"1","4">>, <<"1","5">> >>,
                << <<"3">>, <<"4">>, <<"2","3">>, <<"2","4">>, <<"2","5">> >>,
                << <<"3","1">>, <<"3","2">>, <<"3","3">>, <<"3","4">>, <<"3","5">> >>,
                << <<"4","1">>, <<"4","2">>, <<"4","3">>, <<"4","4">>, <<"4","5">> >>,
                << <<"5","1">>, <<"5","2">>, <<"5","3">>, <<"5","4">>, <<"5","5">> >> >>]
editDataProp ==
    [kind |-> "array",
     arr |-> << << <<"p">>, Null >>,
                << <<"q">>, <<"r">> >> >>]
readOnlyProp ==
    [kind |-> "array",
     arr |-> << <<FALSE, FALSE>>,
                <<FALSE, TRUE>> >>]

sourceData(x, y) == createCellPropFunction(sourceDataProp, Null, x, y)
editData(x, y) == createCellPropFunction(editDataProp, Null, x, y)
cellReadOnly(x, y) == createCellPropFunction(readOnlyProp, FALSE, x, y)

(* Cell content of cell (0,1): a button, an object without onClick (""),   *)
(* and a wide button that overlaps the first and spans six bins.           *)
displayData(x, y) ==
    IF x = 0 /\ y = 1
    THEN << [x |-> 40, y |-> -11, width |-> 20, height |-> 10, onClick |-> "button"],
            [x |-> 0, y |-> 0, width |-> 30, height |-> 5, onClick |-> ""],
            [x |-> 10, y |-> -5, width |-> 45, height |-> 12, onClick |-> "wide"] >>
    ELSE << >>

----------------------------------------------------------------------------
(* calculateRowsOrColsSizes: the window of one axis.                       *)
(* An entry that starts one pixel after the end of the previous one. *)
PushEntry_Gap(w, ind, sizeProp, defaultValue) ==
    [visible |-> Append(w.visible, ind),
     start |-> Append(w.start, Last(w.end) + 1),
     end |-> Append(w.end, Last(w.end) + createRowOrColumnPropFunction(sizeProp, defaultValue, ind))]

PushEntry(w, ind, sizeProp, defaultValue) ==
    [visible |-> Append(w.visible, ind),
     start |-> Append(w.start, Last(w.end)),
     end |-> Append(w.end, Last(w.end) + createRowOrColumnPropFunction(sizeProp, defaultValue, ind))]

RECURSIVE FrozenLoop(_, _, _, _, _)
FrozenLoop(w, ind, freezeCount, sizeProp, defaultValue) ==
    IF ind < freezeCount
    THEN FrozenLoop(PushEntry(w, ind, sizeProp, defaultValue), ind + 1,
                    freezeCount, sizeProp, defaultValue)
    ELSE w

(* One pass through the body of while (true): an entry is pushed, then the *)
(* loop breaks if the window has reached the extent, else ind++.           *)
LoopBody(w, ind, sizeProp, defaultValue, visibleArea) ==
    LET w2 == PushEntry(w, ind, sizeProp, defaultValue)
        done == Last(w2.end) >= visibleArea
    IN  [window |-> w2, ind |-> IF done THEN ind ELSE ind + 1, done |-> done]

RECURSIVE WhileLoop(_, _, _, _, _)
WhileLoop(w, ind, sizeProp, defaultValue, visibleArea) ==
    LET r == LoopBody(w, ind, sizeProp, defaultValue, visibleArea)
    IN  IF r.done
        THEN r.window
        ELSE WhileLoop(r.window, r.ind, sizeProp, defaultValue, visibleArea)

(* A window that always begins at the scroll offset. *)
FirstVisible_Scrolled(freezeCount, startingIndex) == startingIndex

FirstVisible(freezeCount, startingIndex) ==
    IF freezeCount > 0 THEN 0 ELSE startingIndex

(* A window that resumes at the scroll offset, also inside the frozen block. *)
ResumeIndex_Offset(freezeCount, startingIndex) ==
    IF freezeCount > 0 THEN startingIndex ELSE startingIndex + 1

ResumeIndex(freezeCount, startingIndex) ==
    IF freezeCount > 0 THEN Max(startingIndex, freezeCount) ELSE startingIndex + 1

(* The window when the while loop is entered: the first entry and the rest *)
(* of the frozen block.                                                    *)
BeforeLoop(freezeCount, sizeProp, defaultValue, startingSize, startingIndex) ==
    LET first == FirstVisible(freezeCount, startingIndex)
        w0 == [visible |-> <<first>>,
               start |-> <<startingSize>>,
               end |-> <<startingSize + createRowOrColumnPropFunction(sizeProp, defaultValue, first)>>]
    IN  IF freezeCount > 0
        THEN FrozenLoop(w0, 1, freezeCount, sizeProp, defaultValue)
        ELSE w0

calculateRowsOrColsSizes(freezeCount, sizeProp, defaultValue, startingSize, startingIndex, visibleArea) ==
    WhileLoop(BeforeLoop(freezeCount, sizeProp, defaultValue, startingSize, startingIndex),
              ResumeIndex(freezeCount, startingIndex), sizeProp, defaultValue, visibleArea)

(* calculateRowsOrColsSizes of the earlier Sheet (part_000): every cell has *)
(* the one size that size() returns, and nothing is frozen.                *)
PushUniform(w, idx, size) ==
    [visible |-> Append(w.visible, idx),
     start |-> Append(w.start, Last(w.end)),
     end |-> Append(w.end, Last(w.end) + size)]

UniformBody(w, idx, size, visibleArea) ==
    LET w2 == PushUniform(w, idx, size)
        done == Last(w2.end) >= visibleArea
    IN  [window |-> w2, ind |-> IF done THEN idx ELSE idx + 1, done |-> done]

RECURSIVE WhileUniform(_, _, _, _)
WhileUniform(w, idx, size, visibleArea) ==
    LET r == UniformBody(w, idx, size, visibleArea)
    IN  IF r.done
        THEN r.window
        ELSE WhileUniform(r.window, r.ind, size, visibleArea)

BeforeLoopPart000(size, startingIndex, startingSize) ==
    [visible |-> <<startingIndex>>,
     start |-> <<startingSize>>,
     end |-> <<startingSize + size>>]

calculateRowsOrColsSizesPart000(size, startingIndex, startingSize, visibleArea) ==
    WhileUniform(BeforeLoopPart000(size, startingIndex, startingSize),
                 startingIndex + 1, size, visibleArea)

NoWindowArgs == [null |-> TRUE]
NoWindow == [null |-> TRUE]

Columns ==
    calculateRowsOrColsSizes(freezeColumns, cellWidthProp, defaultCellWidth,
                             rowHeaderWidth, dataOffset.x, canvasWidth)
Rows ==
    calculateRowsOrColsSizes(freezeRows, cellHeightProp, defaultCellHeight,
                             columnHeaderHeight, dataOffset.y, canvasHeight)

Includes(seq, v) == \E i \in 1..Len(seq) : seq[i] = v
FindIndex(seq, v) ==
    IF Includes(seq, v) THEN CHOOSE i \in 1..Len(seq) : seq[i] = v /\ \A j \in 1..(i - 1) : seq[j] # v
    ELSE 0

(* absCoordianteToCell on one axis: the first entry whose span, both ends  *)
(* included, holds the pixel; 0 when there is none.                        *)
AxisInSpan(w, i, abs) == abs >= w.start[i] /\ abs <= w.end[i]
AxisToCell(w, abs) ==
    LET hits == {i \in 1..Len(w.visible) : AxisInSpan(w, i, abs)}
    IN  IF hits = {} THEN 0
        ELSE w.visible[CHOOSE i \in hits : \A j \in hits : i <= j]

absCoordianteToCell(absX, absY) ==
    [x |-> AxisToCell(Columns, absX), y |-> AxisToCell(Rows, absY)]

(* cellToAbsCoordinate on one axis.  Its loops add the sizes of the cells  *)
(* 0..n-1 one by one; past the end of an array prop, and for a number or   *)
(* an undefined prop, every cell has the same size, and that part of the   *)
(* sum is taken as a product.                                              *)
RECURSIVE SumArray(_, _)
SumArray(arr, n) == IF n <= 0 THEN 0 ELSE SumArray(arr, n - 1) + arr[n]

RECURSIVE SumFunction(_, _)
SumFunction(fn, n) == IF n <= 0 THEN 0 ELSE SumFunction(fn, n - 1) + fn[n - 1]

SumSizes(sizeProp, defaultValue, n) ==
    IF n <= 0 THEN 0
    ELSE IF sizeProp.kind = "array"
    THEN SumArray(sizeProp.arr, Min(n, Len(sizeProp.arr)))
         + Max(0, n - Len(sizeProp.arr)) * defaultValue
    ELSE IF sizeProp.kind = "function"
    THEN SumFunction(sizeProp.fn, n)
    ELSE n * createRowOrColumnPropFunction(sizeProp, defaultValue, 0)

AxisToAbs(w, sizeProp, defaultValue, headerSize, offset, cell) ==
    LET ind == FindIndex(w.visible, cell)
    IN  IF ind # 0 THEN w.start[ind]
        ELSE headerSize - SumSizes(sizeProp, defaultValue, offset)
                        + SumSizes(sizeProp, defaultValue, cell)

cellToAbsCoordinate(cellX, cellY) ==
    [x |-> AxisToAbs(Columns, cellWidthProp, defaultCellWidth, rowHeaderWidth, dataOffset.x, cellX),
     y |-> AxisToAbs(Rows, cellHeightProp, defaultCellHeight, columnHeaderHeight, dataOffset.y, cellY)]

knobCoordinates ==
    IF selection.x2 # -1 /\ selection.y2 # -1
    THEN LET selx2 == IF selection.x1 > selection.x2 THEN selection.x1 ELSE selection.x2
             sely2 == IF selection.y1 > selection.y2 THEN selection.y1 ELSE selection.y2
             c == cellToAbsCoordinate(selx2, sely2)
         IN  [x |-> c.x + cellWidth(selx2), y |-> c.y + cellHeight(sely2)]
    ELSE [x |-> -1, y |-> -1]

----------------------------------------------------------------------------
(* hitMap: the click targets of the visible cells, in the order they are   *)
(* inserted (rows, then columns, then the objects of a cell), and filed    *)
(* under every 10x10 bin their rectangle touches.  yy is yCoord plus half  *)
(* the cell height: the vertical coordinates of a target are kept doubled  *)
(* (yTwice), which is exact for odd heights too.                           *)
NullTarget == [null |-> TRUE]

HitTarget(x, y, xCoord, yCoord, obj) ==
    [cellX |-> x, cellY |-> y,
     x |-> xCoord + obj.x,
     yTwice |-> 2 * yCoord + cellHeight(y) + 2 * obj.y,
     w |-> obj.width, h |-> obj.height, onClick |-> obj.onClick]

CellTargets(cols, rows, ci, ri) ==
    LET x == cols.visible[ci]
        y == rows.visible[ri]
        objs == SelectSeq(displayData(x, y), LAMBDA obj : obj.onClick # "")
    IN  [i \in 1..Len(objs) |-> HitTarget(x, y, cols.start[ci], rows.start[ri], objs[i])]

RECURSIVE RowTargets(_, _, _, _)
RowTargets(cols, rows, ri, ci) ==
    IF ci > Len(cols.visible) THEN << >>
    ELSE CellTargets(cols, rows, ci, ri) \o RowTargets(cols, rows, ri, ci + 1)

RECURSIVE AllTargets(_, _, _)
AllTargets(cols, rows, ri) ==
    IF ri > Len(rows.visible) THEN << >>
    ELSE RowTargets(cols, rows, ri, 1) \o AllTargets(cols, rows, ri + 1)

FloorDiv(a, b) == a \div b

InBin(t, xkey, ykey) ==
    /\ FloorDiv(t.x, xBinSize) <= xkey
    /\ xkey <= FloorDiv(t.x + t.w, xBinSize)
    /\ FloorDiv(t.yTwice, 2 * yBinSize) <= ykey
    /\ ykey <= FloorDiv(t.yTwice + 2 * t.h, 2 * yBinSize)

hitMap(xkey, ykey) == SelectSeq(AllTargets(Columns, Rows, 1), LAMBDA t : InBin(t, xkey, ykey))

TargetContains(t, x, y) ==
    /\ t.x <= x
    /\ x <= t.x + t.w
    /\ t.yTwice <= 2 * y
    /\ 2 * y <= t.yTwice + 2 * t.h

(* The loop of onMouseDown / onMouseMove over a bin: the first candidate   *)
(* that holds the point.                                                   *)
HitLookup(x, y) ==
    LET bin == hitMap(FloorDiv(x, xBinSize), FloorDiv(y, yBinSize))
        hits == {i \in 1..Len(bin) : TargetContains(bin[i], x, y)}
    IN  IF hits = {} THEN NullTarget
        ELSE bin[CHOOSE i \in hits : \A j \in hits : i <= j]

----------------------------------------------------------------------------
(* changeSelection *)
NoScroll == [left |-> -1, top |-> -1]
NoNotification == << >>

ScrollAxis(w, offset, freezeCount, p2) ==
    IF ~Includes(w.visible, p2) \/ Last(w.visible) = p2
    THEN LET increment == IF Last(w.visible) <= p2 THEN 1 ELSE -1
             new == Max(offset, freezeCount) + increment
         IN  [offset |-> new, scroll |-> new * scrollSpeed]
    ELSE [offset |-> offset, scroll |-> -1]

Normalized(r) ==
    [x1 |-> Min(r.x1, r.x2), y1 |-> Min(r.y1, r.y2),
     x2 |-> Max(r.x1, r.x2), y2 |-> Max(r.y1, r.y2)]

(* The notification with the corners as they are stored. *)
SelectionNotice_AsStored(x1, y1, x2, y2) == <<x1, y1, x2, y2>>

SelectionNotice(x1, y1, x2, y2) ==
    LET sx1 == IF x1 > x2 THEN x2 ELSE x1
        sx2 == IF x1 > x2 THEN x1 ELSE x2
        sy1 == IF y1 > y2 THEN y2 ELSE y1
        sy2 == IF y1 > y2 THEN y1 ELSE y2
    IN  <<sx1, sy1, sx2, sy2>>

(* The scroll-follow of changeSelection: the new offset and the scroll     *)
(* positions its timer will assign, if the offset changes.                 *)
ScrollToP2(columns, rows, offset, frozenColumns, frozenRows, x2, y2) ==
    LET sx == ScrollAxis(columns, offset.x, frozenColumns, x2)
        sy == ScrollAxis(rows, offset.y, frozenRows, y2)
    IN  IF sx.offset # offset.x \/ sy.offset # offset.y
        THEN [changed |-> TRUE, newDataOffset |-> [x |-> sx.offset, y |-> sy.offset],
              scroll |-> [left |-> sx.scroll, top |-> sy.scroll]]
        ELSE [changed |-> FALSE, newDataOffset |-> offset, scroll |-> NoScroll]

changeSelection(x1, y1, x2, y2, scrollToP2) ==
    LET follow == ScrollToP2(Columns, Rows, dataOffset, freezeColumns, freezeRows, x2, y2)
    IN  /\ selection' = [x1 |-> x1, y1 |-> y1, x2 |-> x2, y2 |-> y2]
        /\ IF scrollToP2 /\ follow.changed
           THEN /\ dataOffset' = follow.newDataOffset
                /\ scrollTimers' = Append(scrollTimers, follow.scroll)
           ELSE /\ UNCHANGED dataOffset
                /\ UNCHANGED scrollTimers
        /\ scrollRequest' = NoScroll
        /\ notified' = SelectionNotice(x1, y1, x2, y2)

(* The callback of the timer changeSelection sets: it runs in a task of    *)
(* its own, after the handler has returned, and assigns the positions the  *)
(* handler computed.  Timers of the same delay run in the order they were  *)
(* set.  The overlay is mounted as long as the sheet is.                   *)
ScrollTimeout ==
    /\ scrollTimers # << >>
    /\ scrollRequest' = Head(scrollTimers)
    /\ scrollTimers' = Tail(scrollTimers)

----------------------------------------------------------------------------
(* The repaint effect.  The effect of a render requests an animation frame *)
(* that paints the canvas; its cleanup, which React runs before the effect *)
(* of the next render, cancels the frame it requested.  The browser gives  *)
(* every request the next id, runs a pending frame once and drops a frame  *)
(* that is cancelled while it is pending.                                  *)
requestAnimationFrame(frames) ==
    [frames EXCEPT !.requested = frames.requested + 1,
                   !.pending = frames.pending \cup {frames.requested + 1}]

cancelAnimationFrame(frames, id) ==
    IF id \in frames.pending
    THEN [frames EXCEPT !.pending = frames.pending \ {id},
                        !.cancelled = frames.cancelled \cup {id}]
    ELSE frames

(* An effect whose cleanup cancels nothing. *)
RepaintEffect_NoCleanup(frames, id) == requestAnimationFrame(frames)

(* The cleanup of the last effect, then the effect of the new render *)
RepaintEffect(frames, id) == requestAnimationFrame(cancelAnimationFrame(frames, id))

(* After the first render: its effect has requested the first frame. *)
Mounted ==
    /\ animationFrameId = 1
    /\ animationFrames = [requested |-> 1, pending |-> {1}, painted |-> << >>, cancelled |-> {}]
    /\ effectDue = FALSE

(* A handler has set state: React runs the effect that is still due, then  *)
(* renders, and the effect of the new render is due.                       *)
Render ==
    /\ animationFrames' = IF effectDue THEN RepaintEffect(animationFrames, animationFrameId)
                          ELSE animationFrames
    /\ animationFrameId' = animationFrames'.requested
    /\ effectDue' = TRUE

Effect ==
    /\ effectDue
    /\ animationFrames' = RepaintEffect(animationFrames, animationFrameId)
    /\ animationFrameId' = animationFrames'.requested
    /\ effectDue' = FALSE

AnimationFrame ==
    \E id \in animationFrames.pending :
        /\ animationFrames' = [animationFrames EXCEPT !.pending = animationFrames.pending \ {id},
                                                      !.painted = Append(animationFrames.painted, id)]
        /\ UNCHANGED <<animationFrameId, effectDue>>

----------------------------------------------------------------------------
editMode == editCell.x # -1 /\ editCell.y # -1
NotEditing == [x |-> -1, y |-> -1]
NoResize == [active |-> FALSE]
NoButton == [x |-> -1, y |-> -1, hitTarget |-> NullTarget]

NoChange == /\ changes' = << >>
            /\ onChangeCalls' = 0
NoSelectionChange == /\ notified' = NoNotification
                     /\ scrollRequest' = NoScroll
                     /\ UNCHANGED scrollTimers
NoClick == /\ clicked' = << >>
           /\ sizeRequest' = << >>
NoOutput == /\ NoChange
            /\ NoSelectionChange
            /\ NoClick

(* A commit that reports the change at the anchor of the selection. *)
commitEditingCell_AtAnchor ==
    /\ changes' = << [x |-> selection.x1, y |-> selection.y1, value |-> editValue] >>
    /\ onChangeCalls' = 1

(* commitEditingCell, less its setEditCell *)
commitEditingCell ==
    /\ changes' = << [x |-> editCell.x, y |-> editCell.y, value |-> editValue] >>
    /\ onChangeCalls' = 1

MouseIdle == [down |-> FALSE, at |-> NoPoint, clicks |-> 0]

Init ==
    /\ selection = [x1 |-> -1, y1 |-> -1, x2 |-> -1, y2 |-> -1]
    /\ knobArea = [x1 |-> -1, y1 |-> -1, x2 |-> -1, y2 |-> -1]
    /\ editCell = NotEditing
    /\ editValue = << >>
    /\ arrowKeyCommitMode = FALSE
    /\ shiftKeyDown = FALSE
    /\ knobDragInProgress = FALSE
    /\ selectionInProgress = FALSE
    /\ columnResize = NoResize
    /\ rowResize = NoResize
    /\ rowSelectionInProgress = FALSE
    /\ columnSelectionInProgress = FALSE
    /\ buttonClickMouseDownCoordinates = NoButton
    /\ dataOffset = [x |-> 0, y |-> 0]
    /\ canvasWidth = 250
    /\ canvasHeight = 66
    /\ mouse = MouseIdle
    /\ changes = << >>
    /\ onChangeCalls = 0
    /\ notified = NoNotification
    /\ scrollRequest = NoScroll
    /\ scrollTimers = << >>
    /\ clicked = << >>
    /\ sizeRequest = << >>
    /\ steps = 0
    /\ clipboardText = << >>
    /\ pasteDone = FALSE
    /\ windowArgs = NoWindowArgs
    /\ windowResult = NoWindow
    /\ Mounted

----------------------------------------------------------------------------
(* onMouseDown *)
ResizeHit(w, abs) ==
    LET hits == {i \in 1..Len(w.visible) :
                    Abs(w.start[i] - abs) < resizeColumnRowMouseThreshold}
    IN  IF hits = {} THEN 0 ELSE CHOOSE i \in hits : \A j \in hits : i <= j

KnobHit(x, y) ==
    Abs(x - knobCoordinates.x) < knobSize /\ Abs(y - knobCoordinates.y) < knobSize

MouseDownHitTarget(x, y, hitTarget) ==
    /\ buttonClickMouseDownCoordinates' = [x |-> x, y |-> y, hitTarget |-> hitTarget]
    /\ NoOutput
    /\ UNCHANGED <<selection, knobArea, editCell, editValue, arrowKeyCommitMode, shiftKeyDown,
                   knobDragInProgress, selectionInProgress, columnResize, rowResize,
                   rowSelectionInProgress, columnSelectionInProgress, dataOffset>>

(* The boundary a press grabs and the index it captures: the loops of      *)
(* onMouseDown stop at the first window entry whose start is within the    *)
(* threshold and take the index before that entry's.                       *)
ResizeStart(w, abs) ==
    LET i == ResizeHit(w, abs)
    IN  [start |-> w.start[i], idx |-> w.visible[i] - 1]

MouseDownColumnResize(x, y) ==
    LET r == ResizeStart(Columns, x)
    IN  /\ columnResize' = [active |-> TRUE, startX |-> r.start,
                            oldWidth |-> cellWidth(r.idx), colIdx |-> r.idx]
        /\ NoOutput
        /\ UNCHANGED <<selection, knobArea, editCell, editValue, arrowKeyCommitMode,
                       shiftKeyDown, knobDragInProgress, selectionInProgress, rowResize,
                       rowSelectionInProgress, columnSelectionInProgress,
                       buttonClickMouseDownCoordinates, dataOffset>>

MouseDownRowResize(x, y) ==
    LET r == ResizeStart(Rows, y)
    IN  /\ rowResize' = [active |-> TRUE, startY |-> r.start,
                         oldHeight |-> cellHeight(r.idx), rowIdx |-> r.idx]
        /\ NoOutput
        /\ UNCHANGED <<selection, knobArea, editCell, editValue, arrowKeyCommitMode,
                       shiftKeyDown, knobDragInProgress, selectionInProgress, columnResize,
                       rowSelectionInProgress, columnSelectionInProgress,
                       buttonClickMouseDownCoordinates, dataOffset>>

MouseDownKnob(x, y) ==
    /\ knobDragInProgress' = TRUE
    /\ knobArea' = [x1 |-> selection.x1, y1 |-> selection.y1,
                    x2 |-> selection.x2, y2 |-> selection.y2]
    /\ NoOutput
    /\ UNCHANGED <<selection, editCell, editValue, arrowKeyCommitMode, shiftKeyDown,
                   selectionInProgress, columnResize, rowResize, rowSelectionInProgress,
                   columnSelectionInProgress, buttonClickMouseDownCoordinates, dataOffset>>

MouseDownSelect(x, y) ==
    LET cell == absCoordianteToCell(x, y)
        sel1 == IF shiftKeyDown THEN [x |-> selection.x1, y |-> selection.y1] ELSE cell
        onRowHeader == x < rowHeaderWidth
        onColumnHeader == y < columnHeaderHeight
        sel2 == [x |-> IF onRowHeader THEN wholeSpan ELSE cell.x,
                 y |-> IF onColumnHeader THEN wholeSpan ELSE cell.y]
        scrollToP2 == ~onRowHeader /\ ~onColumnHeader
    IN  /\ IF editMode THEN commitEditingCell ELSE NoChange
        /\ rowSelectionInProgress' = onRowHeader
        /\ columnSelectionInProgress' = onColumnHeader
        /\ selectionInProgress' = TRUE
        /\ changeSelection(sel1.x, sel1.y, sel2.x, sel2.y, scrollToP2)
        /\ editCell' = NotEditing
        /\ NoClick
        /\ UNCHANGED <<knobArea, editValue, arrowKeyCommitMode, shiftKeyDown,
                       knobDragInProgress, columnResize, rowResize,
                       buttonClickMouseDownCoordinates>>

onMouseDown(x, y) ==
    IF x > canvasWidth \/ y > canvasHeight
    THEN NoOutput /\ UNCHANGED state
    ELSE IF HitLookup(x, y) # NullTarget
    THEN MouseDownHitTarget(x, y, HitLookup(x, y))
    ELSE IF y < columnHeaderHeight /\ ResizeHit(Columns, x) # 0
    THEN MouseDownColumnResize(x, y)
    ELSE IF x < rowHeaderWidth /\ ResizeHit(Rows, y) # 0
    THEN MouseDownRowResize(x, y)
    ELSE IF KnobHit(x, y)
    THEN MouseDownKnob(x, y)
    ELSE MouseDownSelect(x, y)

----------------------------------------------------------------------------
(* onMouseUp: the release of a fill drag copies the source values of the   *)
(* selection into the part of knobArea outside it.                         *)
RowOfChanges(fx1, fx2, y, srcY) ==
    [i \in 1..(fx2 - fx1 + 1) |->
        [x |-> fx1 + i - 1, y |-> y, value |-> sourceData(fx1 + i - 1, srcY)]]

ColumnOfChanges(fy1, fy2, x, srcX) ==
    [i \in 1..(fy2 - fy1 + 1) |->
        [x |-> x, y |-> fy1 + i - 1, value |-> sourceData(srcX, fy1 + i - 1)]]

(* A source counter that never wraps back to the first source row. *)
NextSource_NoWrap(src, s1, s2) == src + 1

NextSource(src, s1, s2) == IF src + 1 > s2 THEN s1 ELSE src + 1

RECURSIVE VerticalFill(_, _, _, _, _, _, _)
VerticalFill(y, fy2, fx1, fx2, srcY, sy1, sy2) ==
    IF y > fy2 THEN << >>
    ELSE RowOfChanges(fx1, fx2, y, srcY)
         \o VerticalFill(y + 1, fy2, fx1, fx2, NextSource(srcY, sy1, sy2), sy1, sy2)

RECURSIVE HorizontalFill(_, _, _, _, _, _, _)
HorizontalFill(x, fx2, fy1, fy2, srcX, sx1, sx2) ==
    IF x > fx2 THEN << >>
    ELSE ColumnOfChanges(fy1, fy2, x, srcX)
         \o HorizontalFill(x + 1, fx2, fy1, fy2, NextSource(srcX, sx1, sx2), sx1, sx2)

(* A fill that starts at the first row or column of the candidate area. *)
FillChanges_OverFixed(sel, knob) ==
    LET s == Normalized(sel)
        k == Normalized(knob)
    IN  IF k.x2 - k.x1 = s.x2 - s.x1
        THEN VerticalFill(k.y1, k.y2, k.x1, k.x2, s.y1, s.y1, s.y2)
        ELSE HorizontalFill(k.x1, k.x2, k.y1, k.y2, s.x1, s.x1, s.x2)

FillChanges(sel, knob) ==
    LET s == Normalized(sel)
        k == Normalized(knob)
    IN  IF k.x2 - k.x1 = s.x2 - s.x1
        THEN LET fy1 == IF k.y1 = s.y1 THEN s.y2 + 1 ELSE k.y1
                 fy2 == IF k.y1 = s.y1 THEN k.y2 ELSE s.y1 - 1
             IN  VerticalFill(fy1, fy2, k.x1, k.x2, s.y1, s.y1, s.y2)
        ELSE LET fx1 == IF k.x1 = s.x1 THEN s.x2 + 1 ELSE k.x1
                 fx2 == IF k.x1 = s.x1 THEN k.x2 ELSE s.x1 - 1
             IN  HorizontalFill(fx1, fx2, k.y1, k.y2, s.x1, s.x1, s.x2)

ButtonArmed ==
    /\ buttonClickMouseDownCoordinates.x # -1
    /\ buttonClickMouseDownCoordinates.y # -1
    /\ buttonClickMouseDownCoordinates.hitTarget # NullTarget

(* A release that leaves the resize contexts in place. *)
EndInteractions_KeepingResize ==
    /\ selectionInProgress' = FALSE
    /\ rowSelectionInProgress' = FALSE
    /\ columnSelectionInProgress' = FALSE
    /\ knobDragInProgress' = FALSE
    /\ UNCHANGED <<columnResize, rowResize>>

(* The six resets of onMouseUp *)
EndInteractions ==
    /\ selectionInProgress' = FALSE
    /\ rowSelectionInProgress' = FALSE
    /\ columnSelectionInProgress' = FALSE
    /\ knobDragInProgress' = FALSE
    /\ columnResize' = NoResize
    /\ rowResize' = NoResize

onMouseUp(x, y) ==
    /\ IF knobDragInProgress
       THEN /\ changes' = FillChanges(selection, knobArea)
            /\ onChangeCalls' = 1
            /\ changeSelection(knobArea.x1, knobArea.y1, knobArea.x2, knobArea.y2, TRUE)
       ELSE /\ NoChange
            /\ NoSelectionChange
            /\ UNCHANGED <<selection, dataOffset>>
    /\ EndInteractions
    /\ IF ButtonArmed
       THEN /\ clicked' =
                 IF TargetContains(buttonClickMouseDownCoordinates.hitTarget, x, y)
                 THEN << buttonClickMouseDownCoordinates.hitTarget.onClick >>
                 ELSE << >>
            /\ buttonClickMouseDownCoordinates' = NoButton
       ELSE /\ clicked' = << >>
            /\ UNCHANGED buttonClickMouseDownCoordinates
    /\ sizeRequest' = << >>
    /\ UNCHANGED <<knobArea, editCell, editValue, arrowKeyCommitMode, shiftKeyDown>>

----------------------------------------------------------------------------
(* onMouseMove *)
KnobAreaAt(sel, cell) ==
    LET s == Normalized(sel)
    IN  IF Abs(2 * cell.x - (s.x1 + s.x2)) < Abs(2 * cell.y - (s.y1 + s.y2))
        THEN IF cell.y < s.y1
             THEN [x1 |-> s.x1, y1 |-> cell.y, x2 |-> s.x2, y2 |-> s.y2]
             ELSE [x1 |-> s.x1, y1 |-> s.y1, x2 |-> s.x2, y2 |-> cell.y]
        ELSE IF cell.x < s.x1
             THEN [x1 |-> cell.x, y1 |-> s.y1, x2 |-> s.x2, y2 |-> s.y2]
             ELSE [x1 |-> s.x1, y1 |-> s.y1, x2 |-> cell.x, y2 |-> s.y2]

(* The size that follows the pointer below the minimum. *)
NewSize_Unclamped(oldSize, pixel, startPixel, minimumSize) ==
    oldSize + pixel - startPixel

NewSize(oldSize, pixel, startPixel, minimumSize) ==
    Max(oldSize + pixel - startPixel, minimumSize)

onMouseMove(x, y) ==
    IF columnResize # NoResize
    THEN /\ sizeRequest' = << [axis |-> "column", index |-> columnResize.colIdx,
                               size |-> NewSize(columnResize.oldWidth, x,
                                                columnResize.startX, minimumColumnWidth)] >>
         /\ clicked' = << >>
         /\ NoChange
         /\ NoSelectionChange
         /\ UNCHANGED state
    ELSE IF rowResize # NoResize
    THEN /\ sizeRequest' = << [axis |-> "row", index |-> rowResize.rowIdx,
                               size |-> NewSize(rowResize.oldHeight, y,
                                                rowResize.startY, minimumRowHeight)] >>
         /\ clicked' = << >>
         /\ NoChange
         /\ NoSelectionChange
         /\ UNCHANGED state
    ELSE /\ IF selectionInProgress
            THEN LET sel2 == absCoordianteToCell(x, y)
                 IN  IF rowSelectionInProgress
                     THEN changeSelection(selection.x1, selection.y1, selection.x2, sel2.y, FALSE)
                     ELSE IF columnSelectionInProgress
                     THEN changeSelection(selection.x1, selection.y1, sel2.x, selection.y2, FALSE)
                     ELSE changeSelection(selection.x1, selection.y1, sel2.x, sel2.y, TRUE)
            ELSE /\ NoSelectionChange
                 /\ UNCHANGED <<selection, dataOffset>>
         /\ IF knobDragInProgress
            THEN knobArea' = KnobAreaAt(selection, absCoordianteToCell(x, y))
            ELSE UNCHANGED knobArea
         /\ NoChange
         /\ NoClick
         /\ UNCHANGED <<editCell, editValue, arrowKeyCommitMode, shiftKeyDown,
                        knobDragInProgress, selectionInProgress, columnResize, rowResize,
                        rowSelectionInProgress, columnSelectionInProgress,
                        buttonClickMouseDownCoordinates>>

----------------------------------------------------------------------------
(* startEditingCell, onDoubleClick *)
(* An editor that opens on read-only cells too. *)
startEditingCell_AnyCell(cell) ==
    /\ editCell' = cell
    /\ editValue' = IF editData(cell.x, cell.y) # Null
                    THEN editData(cell.x, cell.y)
                    ELSE << >>

startEditingCell(cell) ==
    IF cellReadOnly(cell.x, cell.y)
    THEN UNCHANGED <<editCell, editValue>>
    ELSE /\ editCell' = cell
         /\ editValue' = IF editData(cell.x, cell.y) # Null
                         THEN editData(cell.x, cell.y)
                         ELSE << >>

onDoubleClick(x, y) ==
    /\ arrowKeyCommitMode' = FALSE
    /\ startEditingCell(absCoordianteToCell(x, y))
    /\ NoOutput
    /\ UNCHANGED <<selection, knobArea, shiftKeyDown, knobDragInProgress,
                   selectionInProgress, columnResize, rowResize, rowSelectionInProgress,
                   columnSelectionInProgress, buttonClickMouseDownCoordinates, dataOffset>>

(* The input of the editor: onChange={(e) => setEditValue(e.target.value)} *)
onEditInput(v) ==
    /\ editMode
    /\ editValue' = v
    /\ NoOutput
    /\ UNCHANGED <<selection, knobArea, editCell, arrowKeyCommitMode, shiftKeyDown,
                   knobDragInProgress, selectionInProgress, columnResize, rowResize,
                   rowSelectionInProgress, columnSelectionInProgress,
                   buttonClickMouseDownCoordinates, dataOffset>>

----------------------------------------------------------------------------
(* onKeyDown: the key handler of the editor's input *)
ArrowKeys == {"ArrowRight", "ArrowLeft", "ArrowUp", "ArrowDown"}

ArrowCommitTarget(key) ==
    [x |-> IF key = "ArrowRight" THEN selection.x1 + 1
           ELSE IF key = "ArrowLeft" THEN selection.x1 - 1
           ELSE selection.x1,
     y |-> IF key = "ArrowUp" THEN selection.y1 - 1
           ELSE IF key = "ArrowDown" THEN selection.y1 + 1
           ELSE selection.y1]

CommitAndMove(x, y) ==
    /\ commitEditingCell
    /\ editCell' = NotEditing
    /\ changeSelection(x, y, x, y, TRUE)
    /\ NoClick
    /\ UNCHANGED <<knobArea, editValue, arrowKeyCommitMode, shiftKeyDown,
                   knobDragInProgress, selectionInProgress, columnResize, rowResize,
                   rowSelectionInProgress, columnSelectionInProgress,
                   buttonClickMouseDownCoordinates>>

(* An Escape that commits the buffer before it leaves the editor. *)
DiscardEdit_Committing ==
    /\ commitEditingCell
    /\ editCell' = NotEditing
    /\ NoSelectionChange
    /\ NoClick
    /\ UNCHANGED <<selection, knobArea, editValue, arrowKeyCommitMode, shiftKeyDown,
                   knobDragInProgress, selectionInProgress, columnResize, rowResize,
                   rowSelectionInProgress, columnSelectionInProgress,
                   buttonClickMouseDownCoordinates, dataOffset>>

(* The Escape branch of onKeyDown *)
DiscardEdit ==
    /\ editCell' = NotEditing
    /\ NoOutput
    /\ UNCHANGED <<selection, knobArea, editValue, arrowKeyCommitMode, shiftKeyDown,
                   knobDragInProgress, selectionInProgress, columnResize, rowResize,
                   rowSelectionInProgress, columnSelectionInProgress,
                   buttonClickMouseDownCoordinates, dataOffset>>

onKeyDown(key) ==
    /\ editMode
    /\ IF key = "Escape"
       THEN DiscardEdit
       ELSE IF key = "Enter"
       THEN CommitAndMove(selection.x1, selection.y1 + 1)
       ELSE IF key = "Tab"
       THEN CommitAndMove(selection.x1 + 1, selection.y1)
       ELSE IF arrowKeyCommitMode /\ key \in ArrowKeys
       THEN CommitAndMove(ArrowCommitTarget(key).x, ArrowCommitTarget(key).y)
       ELSE NoOutput /\ UNCHANGED state

----------------------------------------------------------------------------
(* onGridKeyDown, onGridKeyUp: the key handlers of the hidden text area *)
(* A Delete loop that stops one column short (x < x2). *)
DeleteChanges_ShortRow(sel) ==
    LET s == [x1 |-> Min(sel.x1, sel.x2), y1 |-> Min(sel.y1, sel.y2),
              x2 |-> Max(sel.x1, sel.x2), y2 |-> Max(sel.y1, sel.y2)]
        width == s.x2 - s.x1
        height == s.y2 - s.y1 + 1
    IN  [i \in 1..(width * height) |->
            [x |-> s.x1 + ((i - 1) % width), y |-> s.y1 + ((i - 1) \div width), value |-> Null]]

(* The nested loops of the Delete branch, rows outermost: the i-th change  *)
(* pushed is that of the cell i-1 places into the rectangle, row by row.   *)
DeleteChanges(sel) ==
    LET s == Normalized(sel)
        width == s.x2 - s.x1 + 1
        height == s.y2 - s.y1 + 1
    IN  [i \in 1..(width * height) |->
            [x |-> s.x1 + ((i - 1) % width), y |-> s.y1 + ((i - 1) \div width), value |-> Null]]

NothingSelected ==
    selection.x1 = -1 \/ selection.x2 = -1 \/ selection.y1 = -1 \/ selection.y2 = -1

StartsEditing(key) == key \in {"a", "Enter"}

(* An arrow move that is not held at the first row and column. *)
ArrowTarget_Unclamped(key) ==
    [x |-> IF key = "ArrowRight" THEN selection.x2 + 1
           ELSE IF key = "ArrowLeft" THEN selection.x2 - 1
           ELSE selection.x2,
     y |-> IF key = "ArrowUp" THEN selection.y2 - 1
           ELSE IF key = "ArrowDown" THEN selection.y2 + 1
           ELSE selection.y2]

ArrowTarget(key) ==
    LET x == IF key = "ArrowRight" THEN selection.x2 + 1
             ELSE IF key = "ArrowLeft" THEN selection.x2 - 1
             ELSE selection.x2
        y == IF key = "ArrowUp" THEN selection.y2 - 1
             ELSE IF key = "ArrowDown" THEN selection.y2 + 1
             ELSE selection.y2
    IN  [x |-> IF x < 0 THEN 0 ELSE x, y |-> IF y < 0 THEN 0 ELSE y]

onGridKeyDown(key, shiftKey) ==
    IF editMode /\ arrowKeyCommitMode /\ key \in ArrowKeys
    THEN /\ commitEditingCell
         /\ editCell' = NotEditing
         /\ NoSelectionChange
         /\ NoClick
         /\ UNCHANGED <<selection, knobArea, editValue, arrowKeyCommitMode, shiftKeyDown,
                        knobDragInProgress, selectionInProgress, columnResize, rowResize,
                        rowSelectionInProgress, columnSelectionInProgress,
                        buttonClickMouseDownCoordinates, dataOffset>>
    ELSE IF key = "Shift"
    THEN /\ shiftKeyDown' = TRUE
         /\ NoOutput
         /\ UNCHANGED <<selection, knobArea, editCell, editValue, arrowKeyCommitMode,
                        knobDragInProgress, selectionInProgress, columnResize, rowResize,
                        rowSelectionInProgress, columnSelectionInProgress,
                        buttonClickMouseDownCoordinates, dataOffset>>
    ELSE IF key \in {"Ctrl+V", "Ctrl+C"}
    THEN NoOutput /\ UNCHANGED state
    ELSE IF key \in {"Backspace", "Delete"}
    THEN /\ onChangeCalls' = 1
         /\ NoSelectionChange
         /\ NoClick
         /\ UNCHANGED state
         /\ changes' = DeleteChanges(selection)
    ELSE IF NothingSelected
    THEN NoOutput /\ UNCHANGED state
    ELSE IF StartsEditing(key)
    THEN /\ IF cellReadOnly(selection.x1, selection.y1)
            THEN UNCHANGED <<editCell, editValue, arrowKeyCommitMode>>
            ELSE /\ startEditingCell([x |-> selection.x1, y |-> selection.y1])
                 /\ arrowKeyCommitMode' = (key # "Enter")
         /\ NoOutput
         /\ UNCHANGED <<selection, knobArea, shiftKeyDown, knobDragInProgress,
                        selectionInProgress, columnResize, rowResize, rowSelectionInProgress,
                        columnSelectionInProgress, buttonClickMouseDownCoordinates, dataOffset>>
    ELSE IF key \in ArrowKeys
    THEN LET sel2 == ArrowTarget(key)
             sel1 == IF shiftKey THEN [x |-> selection.x1, y |-> selection.y1] ELSE sel2
         IN  /\ changeSelection(sel1.x, sel1.y, sel2.x, sel2.y, TRUE)
             /\ NoChange
             /\ NoClick
             /\ UNCHANGED <<knobArea, editCell, editValue, arrowKeyCommitMode, shiftKeyDown,
                            knobDragInProgress, selectionInProgress, columnResize, rowResize,
                            rowSelectionInProgress, columnSelectionInProgress,
                            buttonClickMouseDownCoordinates>>
    ELSE NoOutput /\ UNCHANGED state

onGridKeyUp(shiftKey) ==
    /\ shiftKeyDown' = shiftKey
    /\ NoOutput
    /\ UNCHANGED <<selection, knobArea, editCell, editValue, arrowKeyCommitMode,
                   knobDragInProgress, selectionInProgress, columnResize, rowResize,
                   rowSelectionInProgress, columnSelectionInProgress,
                   buttonClickMouseDownCoordinates, dataOffset>>

----------------------------------------------------------------------------
(* onScroll: the offset is the host's scroll position in steps of          *)
(* scrollSpeed pixels (maxScroll, which only sizes the scroll area, is     *)
(* left out).                                                              *)
onScroll(scrollLeft, scrollTop) ==
    /\ dataOffset' = [x |-> FloorDiv(scrollLeft, scrollSpeed),
                      y |-> FloorDiv(scrollTop, scrollSpeed)]
    /\ NoOutput
    /\ UNCHANGED <<selection, knobArea, editCell, editValue, arrowKeyCommitMode, shiftKeyDown,
                   knobDragInProgress, selectionInProgress, columnResize, rowResize,
                   rowSelectionInProgress, columnSelectionInProgress,
                   buttonClickMouseDownCoordinates>>

----------------------------------------------------------------------------
(* parsePastedText.  A text is a sequence of characters.                   *)
RECURSIVE SplitOn(_, _, _, _)
(* text.split(sep), scanning from position i with the field cur open *)
SplitOn(text, sep, i, cur) ==
    IF i > Len(text) THEN << cur >>
    ELSE IF text[i] = sep
    THEN << cur >> \o SplitOn(text, sep, i + 1, << >>)
    ELSE SplitOn(text, sep, i + 1, Append(cur, text[i]))

RECURSIVE SplitLines(_, _, _)
(* text.split(/\r?\n/): a carriage return right before the line feed is   *)
(* part of the separator                                                   *)
SplitLines(text, i, cur) ==
    IF i > Len(text) THEN << cur >>
    ELSE IF text[i] = "\n"
    THEN << cur >> \o SplitLines(text, i + 1, << >>)
    ELSE IF text[i] = "\r" /\ i < Len(text) /\ text[i + 1] = "\n"
    THEN << cur >> \o SplitLines(text, i + 2, << >>)
    ELSE SplitLines(text, i + 1, Append(cur, text[i]))

PasteLocation(sel) ==
    [x |-> IF sel.x1 # -1 /\ sel.x2 # -1 THEN Min(sel.x1, sel.x2)
           ELSE IF sel.x1 # -1 /\ sel.x2 = -1 THEN sel.x1
           ELSE -1,
     y |-> IF sel.y1 # -1 /\ sel.y2 # -1 THEN Min(sel.y1, sel.y2)
           ELSE IF sel.y1 # -1 /\ sel.y2 = -1 THEN sel.y1
           ELSE -1]

(* A row of changes placed one column to the right. *)
RowChanges_Shifted(cols, pasteLocX, y) ==
    [x \in 1..Len(cols) |-> [y |-> y, x |-> pasteLocX + x, value |-> cols[x]]]

RowChanges(cols, pasteLocX, y) ==
    [x \in 1..Len(cols) |-> [y |-> y, x |-> pasteLocX + x - 1, value |-> cols[x]]]

RECURSIVE PasteRows(_, _, _, _)
PasteRows(rows, y, pasteLocX, pasteLocY) ==
    IF y > Len(rows) THEN << >>
    ELSE RowChanges(SplitOn(rows[y], "\t", 1, << >>), pasteLocX, pasteLocY + y - 1)
         \o PasteRows(rows, y + 1, pasteLocX, pasteLocY)

RECURSIVE PasteX2(_, _, _, _)
PasteX2(rows, y, pasteLocX, pasteX2) ==
    IF y > Len(rows) THEN pasteX2
    ELSE LET cols == SplitOn(rows[y], "\t", 1, << >>)
         IN  PasteX2(rows, y + 1, pasteLocX,
                     IF pasteLocX + Len(cols) - 1 > pasteX2
                     THEN pasteLocX + Len(cols) - 1
                     ELSE pasteX2)

parsePastedText(text) ==
    LET loc == PasteLocation(selection)
        rows == SplitLines(text, 1, << >>)
    IN  /\ IF loc.x = -1 \/ loc.y = -1
           THEN /\ NoChange
                /\ NoSelectionChange
                /\ UNCHANGED <<selection, dataOffset>>
           ELSE /\ changes' = PasteRows(rows, 1, loc.x, loc.y)
                /\ onChangeCalls' = 1
                /\ changeSelection(loc.x, loc.y,
                                   PasteX2(rows, 1, loc.x, loc.x), loc.y + Len(rows) - 1,
                                   FALSE)
        /\ NoClick
        /\ UNCHANGED <<knobArea, editCell, editValue, arrowKeyCommitMode, shiftKeyDown,
                       knobDragInProgress, selectionInProgress, columnResize, rowResize,
                       rowSelectionInProgress, columnSelectionInProgress,
                       buttonClickMouseDownCoordinates>>

----------------------------------------------------------------------------
(* setCopyPasteText: the text put in the hidden text area for the          *)
(* clipboard.  With a corner of the selection undefined the text area is   *)
(* left as it is (set is FALSE).                                           *)
RECURSIVE Join(_, _, _)
(* items.join(sep), from item i on *)
Join(items, sep, i) ==
    IF i > Len(items) THEN << >>
    ELSE IF i = Len(items) THEN items[i]
    ELSE items[i] \o << sep >> \o Join(items, sep, i + 1)

(* A row that is given the values as they are. *)
CopyValue_Raw(value) == value

CopyValue(value) == IF value # Null THEN value ELSE << >>

setCopyPasteText ==
    IF selection.x1 = -1 \/ selection.y1 = -1 \/ selection.x2 = -1 \/ selection.y2 = -1
    THEN [set |-> FALSE]
    ELSE LET dy1 == IF selection.y1 > selection.y2 THEN selection.y2 ELSE selection.y1
             dy2 == IF selection.y1 > selection.y2 THEN selection.y1 ELSE selection.y2
             dx1 == IF selection.x1 > selection.x2 THEN selection.x2 ELSE selection.x1
             dx2 == IF selection.x1 > selection.x2 THEN selection.x1 ELSE selection.x2
             row(y) == [i \in 1..(dx2 - dx1 + 1) |-> CopyValue(editData(dx1 + i - 1, y))]
             rows == [j \in 1..(dy2 - dy1 + 1) |-> Join(row(dy1 + j - 1), "\t", 1)]
         IN  [set |-> TRUE, value |-> Join(rows, "\n", 1)]

----------------------------------------------------------------------------
(* parsePastedHtml.  The payload is the element tree the browser builds    *)
(* from the HTML text: a node has a nodeName, its child elements and, for  *)
(* a cell, its innerHTML.  findTable returns Undefined when no descendant  *)
(* is a TABLE.                                                             *)
RECURSIVE findTable(_)
RECURSIVE FindTableFrom(_, _)
FindTableFrom(children, i) ==
    IF i > Len(children) THEN Undefined
    ELSE IF children[i].nodeName = "TABLE" THEN children[i]
    ELSE LET maybeTable == findTable(children[i])
         IN  IF maybeTable # Undefined THEN maybeTable
             ELSE FindTableFrom(children, i + 1)

(* A search that falls back on the element it was given. *)
findTable_OrSelf(element) ==
    IF FindTableFrom(element.children, 1) = Undefined THEN element
    ELSE FindTableFrom(element.children, 1)

findTable(element) == FindTableFrom(element.children, 1)

(* The loops over the table: r is {x, y, changes} as the loops leave them. *)
RECURSIVE HtmlCells(_, _, _)
HtmlCells(tds, i, r) ==
    IF i > Len(tds) THEN r
    ELSE HtmlCells(tds, i + 1,
                   IF tds[i].nodeName = "TD"
                   THEN [x |-> r.x + 1, y |-> r.y,
                         changes |-> Append(r.changes,
                                            [y |-> r.y, x |-> r.x, value |-> tds[i].innerHTML])]
                   ELSE r)

RECURSIVE HtmlRows(_, _, _, _)
HtmlRows(trs, i, pasteLocX, r) ==
    IF i > Len(trs) THEN r
    ELSE HtmlRows(trs, i + 1, pasteLocX,
                  IF trs[i].nodeName = "TR"
                  THEN LET row == HtmlCells(trs[i].children, 1, [r EXCEPT !.x = pasteLocX])
                       IN  [row EXCEPT !.y = row.y + 1]
                  ELSE [r EXCEPT !.x = pasteLocX])

RECURSIVE HtmlTable(_, _, _, _)
HtmlTable(tableChildren, i, pasteLocX, r) ==
    IF i > Len(tableChildren) THEN r
    ELSE HtmlTable(tableChildren, i + 1, pasteLocX,
                   IF tableChildren[i].nodeName = "TBODY"
                   THEN HtmlRows(tableChildren[i].children, 1, pasteLocX, r)
                   ELSE r)

(* An import that goes on without an anchor. *)
HtmlDropped_AnchorOnly(loc, tableNode) == tableNode = Undefined

(* The two early returns of parsePastedHtml *)
HtmlDropped(loc, tableNode) == loc.x = -1 \/ loc.y = -1 \/ tableNode = Undefined

parsePastedHtml(div) ==
    LET loc == PasteLocation(selection)
        tableNode == findTable(div)
    IN  /\ IF HtmlDropped(loc, tableNode)
           THEN /\ NoChange
                /\ NoSelectionChange
                /\ UNCHANGED <<selection, dataOffset>>
           ELSE LET r == HtmlTable(tableNode.children, 1, loc.x,
                                   [x |-> loc.x, y |-> loc.y, changes |-> << >>])
                IN  /\ changes' = r.changes
                    /\ onChangeCalls' = 1
                    /\ changeSelection(loc.x, loc.y, r.x - 1, r.y - 1, FALSE)
        /\ NoClick
        /\ UNCHANGED <<knobArea, editCell, editValue, arrowKeyCommitMode, shiftKeyDown,
                       knobDragInProgress, selectionInProgress, columnResize, rowResize,
                       rowSelectionInProgress, columnSelectionInProgress,
                       buttonClickMouseDownCoordinates>>

(* onPaste: the HTML flavour of the clipboard is taken before the plain    *)
(* text.                                                                   *)
onPaste(types, html, text) ==
    IF "text/html" \in types THEN parsePastedHtml(html)
    ELSE IF "text/plain" \in types THEN parsePastedText(text)
    ELSE NoOutput /\ UNCHANGED state

----------------------------------------------------------------------------
(* The events.  The primary button is pressed and released in turn; a      *)
(* double click follows two presses and releases at one point.             *)
PointerXs == {10, 100, 152}
PointerYs == {10, 33, 46}
EditorKeys == {"Escape", "Enter", "Tab", "a"} \cup ArrowKeys
GridKeys == {"Shift", "Ctrl+V", "Delete", "Backspace", "Tab", "a", "Enter"} \cup ArrowKeys
EditTexts == { <<"x">> }
PasteTexts == { <<"a">>, <<"a", "\t", "b", "\n", "c">> }
ScrollPositions == {15, 45}         \* scrollLeft, scrollTop: offsets 0 and 1

ReleaseElsewhere == <<10, 10>>

Step == /\ steps < MaxSteps
        /\ steps' = steps + 1
        /\ UNCHANGED <<canvas, pasteRun, windowRun, repaint>>

(* The release that completes a press. *)
Release == /\ steps' = steps
           /\ UNCHANGED <<canvas, pasteRun, windowRun, repaint>>

OtherEvent == /\ mouse' = [mouse EXCEPT !.at = NoPoint, !.clicks = 0]
              /\ Step

MouseDown ==
    \E x \in PointerXs, y \in PointerYs :
        /\ ~mouse.down
        /\ onMouseDown(x, y)
        /\ mouse' = [down |-> TRUE, at |-> <<x, y>>,
                     clicks |-> IF mouse.at = <<x, y>> THEN mouse.clicks ELSE 0]
        /\ Step

MouseDownSecondary ==
    /\ NoOutput
    /\ OtherEvent
    /\ UNCHANGED state

MouseMove ==
    \E x \in PointerXs, y \in PointerYs :
        /\ onMouseMove(x, y)
        /\ OtherEvent

MouseUp ==
    \E x \in PointerXs, y \in PointerYs :
        /\ <<x, y>> \in {mouse.at, ReleaseElsewhere}
        /\ onMouseUp(x, y)
        /\ mouse' = IF mouse.down /\ mouse.at = <<x, y>>
                    THEN [down |-> FALSE, at |-> <<x, y>>, clicks |-> Min(mouse.clicks + 1, 2)]
                    ELSE MouseIdle
        /\ Release

DoubleClick ==
    \E x \in PointerXs, y \in PointerYs :
        /\ ~mouse.down
        /\ mouse.at = <<x, y>>
        /\ mouse.clicks = 2
        /\ onDoubleClick(x, y)
        /\ OtherEvent

EditInput ==
    \E v \in EditTexts :
        /\ onEditInput(v)
        /\ OtherEvent

KeyDown ==
    \E key \in EditorKeys :
        /\ onKeyDown(key)
        /\ OtherEvent

GridKeyDown ==
    \E key \in GridKeys, shiftKey \in BOOLEAN :
        /\ shiftKey => key \in ArrowKeys
        /\ onGridKeyDown(key, shiftKey)
        /\ OtherEvent

GridKeyUp ==
    \E shiftKey \in BOOLEAN :
        /\ onGridKeyUp(shiftKey)
        /\ OtherEvent

Scroll ==
    \E scrollLeft \in ScrollPositions, scrollTop \in ScrollPositions :
        /\ onScroll(scrollLeft, scrollTop)
        /\ OtherEvent

PasteText ==
    \E text \in PasteTexts :
        /\ parsePastedText(text)
        /\ OtherEvent

(* A timer of changeSelection runs: no handler of the sheet is called and  *)
(* no state is set.  The task is counted in steps as an event is.          *)
Timeout ==
    /\ steps < MaxSteps
    /\ ScrollTimeout
    /\ NoChange
    /\ notified' = NoNotification
    /\ NoClick
    /\ steps' = steps + 1
    /\ UNCHANGED <<state, canvas, mouse, pasteRun, windowRun, repaint>>

Next ==
    \/ MouseDown
    \/ MouseDownSecondary
    \/ MouseMove
    \/ MouseUp
    \/ DoubleClick
    \/ EditInput
    \/ KeyDown
    \/ GridKeyDown
    \/ GridKeyUp
    \/ Scroll
    \/ PasteText
    \/ Timeout

Spec == Init /\ [][Next]_vars

----------------------------------------------------------------------------
(* Runs that start from a sheet already in use: a selection the user has   *)
(* made, a canvas of some size, a text on the clipboard, the arguments of  *)
(* a window computation.  Everything else is as after construction.        *)
Unselected == [x1 |-> -1, y1 |-> -1, x2 |-> -1, y2 |-> -1]

Seeded(sel, width, height, text, args) ==
    /\ selection = sel
    /\ knobArea = Unselected
    /\ editCell = NotEditing
    /\ editValue = << >>
    /\ arrowKeyCommitMode = FALSE
    /\ shiftKeyDown = FALSE
    /\ knobDragInProgress = FALSE
    /\ selectionInProgress = FALSE
    /\ columnResize = NoResize
    /\ rowResize = NoResize
    /\ rowSelectionInProgress = FALSE
    /\ columnSelectionInProgress = FALSE
    /\ buttonClickMouseDownCoordinates = NoButton
    /\ dataOffset = [x |-> 0, y |-> 0]
    /\ canvasWidth = width
    /\ canvasHeight = height
    /\ mouse = MouseIdle
    /\ changes = << >>
    /\ onChangeCalls = 0
    /\ notified = NoNotification
    /\ scrollRequest = NoScroll
    /\ scrollTimers = << >>
    /\ clicked = << >>
    /\ sizeRequest = << >>
    /\ steps = 0
    /\ clipboardText = text
    /\ pasteDone = FALSE
    /\ windowArgs = args
    /\ windowResult = NoWindow
    /\ Mounted

Rectangles(cells) ==
    {[x1 |-> a, y1 |-> b, x2 |-> c, y2 |-> d] : a \in cells, b \in cells, c \in cells, d \in cells}

(* Delete and Backspace on a selection, editing or not, scrolled or not.   *)
MaxDeleteCell == 2
DeleteSelections == Rectangles(0..MaxDeleteCell) \cup {Unselected}
DeleteKeys == {"Delete", "Backspace", "Enter"}

InitDelete ==
    \E sel \in DeleteSelections : Seeded(sel, 250, 66, << >>, NoWindowArgs)

GridKeyDownDelete ==
    \E key \in DeleteKeys :
        /\ onGridKeyDown(key, FALSE)
        /\ OtherEvent

NextDelete ==
    \/ GridKeyDownDelete
    \/ Scroll

SpecDelete == InitDelete /\ [][NextDelete]_vars

(* A fill drag: the knob of the selection is pressed, the pointer moves    *)
(* over the cells of the canvas, the button is released.                   *)
MaxFillCell == 3
FillSelections == Rectangles(0..MaxFillCell)
FillCanvasWidth == rowHeaderWidth + (MaxFillCell + 2) * defaultCellWidth
FillCanvasHeight == columnHeaderHeight + (MaxFillCell + 2) * defaultCellHeight
FillXs == {rowHeaderWidth + c * defaultCellWidth + 50 : c \in 0..(MaxFillCell + 1)}
FillYs == {columnHeaderHeight + r * defaultCellHeight + 11 : r \in 0..(MaxFillCell + 1)}

InitFill ==
    \E sel \in FillSelections :
        Seeded(sel, FillCanvasWidth, FillCanvasHeight, << >>, NoWindowArgs)

FillPress ==
    /\ ~mouse.down
    /\ onMouseDown(knobCoordinates.x, knobCoordinates.y)
    /\ mouse' = [down |-> TRUE, at |-> <<knobCoordinates.x, knobCoordinates.y>>, clicks |-> 0]
    /\ Step

FillMove ==
    \E x \in FillXs, y \in FillYs :
        /\ mouse.down
        /\ onMouseMove(x, y)
        /\ OtherEvent

FillRelease ==
    /\ mouse.down
    /\ onMouseUp(ReleaseElsewhere[1], ReleaseElsewhere[2])
    /\ mouse' = MouseIdle
    /\ Release

NextFill ==
    \/ FillPress
    \/ FillMove
    \/ FillRelease
    \/ Timeout

SpecFill == InitFill /\ [][NextFill]_vars

(* parsePastedText on the texts over a small alphabet.                     *)
MaxPasteLen == 3
PasteAlphabet == {"a", "\t", "\n", "\r"}
ExampleText == <<"a", "\t", "b", "\n", "c", "\t", "d">>
SeedTexts ==
    UNION {[1..n -> PasteAlphabet] : n \in 0..MaxPasteLen} \cup {ExampleText}
PasteSelections ==
    { Unselected,
      [x1 |-> 2, y1 |-> 3, x2 |-> 2, y2 |-> 3],
      [x1 |-> 3, y1 |-> 4, x2 |-> 2, y2 |-> 3],
      [x1 |-> 0, y1 |-> 2, x2 |-> 1, y2 |-> 0] }

InitPaste ==
    \E sel \in PasteSelections, text \in SeedTexts :
        Seeded(sel, 250, 66, text, NoWindowArgs)

Paste ==
    /\ ~pasteDone
    /\ parsePastedText(clipboardText)
    /\ pasteDone' = TRUE
    /\ steps' = steps + 1
    /\ UNCHANGED <<clipboardText, mouse, canvas, windowRun, repaint>>

NextPaste == Paste

SpecPaste == InitPaste /\ [][NextPaste]_vars

(* calculateRowsOrColsSizes, in both versions, on uniform sizes with       *)
(* nothing frozen.                                                         *)
MaxSize == 4
MaxIndex == 3
MaxArea == 12
HeaderSizes == {0, 2}

InitWindow ==
    \E size \in 1..MaxSize, k \in 0..MaxIndex, header \in HeaderSizes, area \in 0..MaxArea :
        Seeded(Unselected, 250, 66, << >>,
               [size |-> size, startingIndex |-> k, startingSize |-> header,
                visibleArea |-> area])

WindowStep ==
    /\ windowResult = NoWindow
    /\ steps' = steps + 1
    /\ UNCHANGED <<state, canvas, mouse, outputs, pasteRun, windowArgs, repaint>>

ComputeWindow ==
    /\ WindowStep
    /\ windowResult' =
          [version |-> "SheetCopy.jsx",
           window |-> calculateRowsOrColsSizes(0, [kind |-> "number", num |-> windowArgs.size],
                                               defaultCellWidth, windowArgs.startingSize,
                                               windowArgs.startingIndex, windowArgs.visibleArea)]

ComputeWindowPart000 ==
    /\ WindowStep
    /\ windowResult' =
          [version |-> "part_000",
           window |-> calculateRowsOrColsSizesPart000(windowArgs.size, windowArgs.startingIndex,
                                                      windowArgs.startingSize,
                                                      windowArgs.visibleArea)]

NextWindow ==
    \/ ComputeWindow
    \/ ComputeWindowPart000

SpecWindow == InitWindow /\ [][NextWindow]_vars

(* calculateRowsOrColsSizes with a frozen leading block and sizes that     *)
(* differ from cell to cell: the size prop is absent, a number, an array   *)
(* or a function.                                                          *)
MaxFreeze == 2
LastSizedCell == MaxFreeze + MaxIndex + MaxArea + 2
SizeProps ==
    { Undefined,
      [kind |-> "number", num |-> 3],
      [kind |-> "array", arr |-> <<1, 4, 2>>],
      [kind |-> "function", fn |-> [c \in 0..LastSizedCell |-> 1 + (c % 3)]] }
DefaultSizes == {2}

InitFrozen ==
    \E f \in 0..MaxFreeze, sizeProp \in SizeProps, default \in DefaultSizes,
       k \in 0..MaxIndex, header \in HeaderSizes, area \in 0..MaxArea :
        Seeded(Unselected, 250, 66, << >>,
               [freezeCount |-> f, sizeProp |-> sizeProp, defaultValue |-> default,
                startingIndex |-> k, startingSize |-> header, visibleArea |-> area])

ComputeFrozenWindow ==
    /\ WindowStep
    /\ windowResult' =
          [version |-> "SheetCopy.jsx",
           window |-> calculateRowsOrColsSizes(windowArgs.freezeCount, windowArgs.sizeProp,
                                               windowArgs.defaultValue, windowArgs.startingSize,
                                               windowArgs.startingIndex, windowArgs.visibleArea)]

NextFrozen == ComputeFrozenWindow

SpecFrozen == InitFrozen /\ [][NextFrozen]_vars

(* absCoordianteToCell and cellToAbsCoordinate on the pixels around the    *)
(* cell boundaries, at the scroll offsets the host can set.  The point is  *)
(* kept in windowArgs, the cell and its pixel origin in windowResult.      *)
PixelXs == {rowHeaderWidth + d : d \in {-1, 0, 1, 99, 100, 101, 199, 200}}
PixelYs == {columnHeaderHeight + d : d \in {-1, 0, 1, 21, 22, 23, 43, 44}}

InitPixel ==
    \E absX \in PixelXs, absY \in PixelYs :
        Seeded(Unselected, 250, 66, << >>, [absX |-> absX, absY |-> absY])

ConvertPixel ==
    /\ WindowStep
    /\ windowResult' =
          LET cell == absCoordianteToCell(windowArgs.absX, windowArgs.absY)
          IN  [cell |-> cell, abs |-> cellToAbsCoordinate(cell.x, cell.y)]

PixelScroll ==
    /\ windowResult = NoWindow
    /\ Scroll

NextPixel ==
    \/ ConvertPixel
    \/ PixelScroll

SpecPixel == InitPixel /\ [][NextPixel]_vars

(* The hit-test lookup on the points around the click targets.  The point  *)
(* is kept in windowArgs, the target found in windowResult.                *)
HitXs == {45 + 3 * i : i \in 0..24}
HitYs == {40 + 2 * i : i \in 0..12}

InitHit ==
    \E x \in HitXs, y \in HitYs :
        Seeded(Unselected, 250, 66, << >>, [x |-> x, y |-> y])

LookupHit ==
    /\ WindowStep
    /\ windowResult' = [hitTarget |-> HitLookup(windowArgs.x, windowArgs.y)]

NextHit ==
    \/ LookupHit
    \/ PixelScroll

SpecHit == InitHit /\ [][NextHit]_vars

(* A press on the sheet and its release anywhere on the page.  The window  *)
(* listener hands onMouseUp the event of whichever element is under the    *)
(* pointer, and onMouseUp measures the release from that element's         *)
(* bounding rectangle.  The overlay that covers the sheet is at the client *)
(* origin; the other element is a neighbour of the sheet on the page.      *)
PressXs == {55, 75, 95, 100, 130}
PressYs == {40, 46, 52, 58, 64}
Overlay == [left |-> 0, top |-> 0]
ReleaseElements == { Overlay, [left |-> 300, top |-> 0] }
ReleaseClientXs == PressXs \cup {x + 300 : x \in PressXs}

EventPoint(clientX, clientY, rect) == [x |-> clientX - rect.left, y |-> clientY - rect.top]

InitClick == Seeded(Unselected, 250, 66, << >>, NoWindowArgs)

ClickPress ==
    \E x \in PressXs, y \in PressYs :
        /\ ~mouse.down
        /\ onMouseDown(EventPoint(x, y, Overlay).x, EventPoint(x, y, Overlay).y)
        /\ mouse' = [down |-> TRUE, at |-> <<x, y>>, clicks |-> 0]
        /\ Step

ClickRelease ==
    \E clientX \in ReleaseClientXs, clientY \in PressYs, element \in ReleaseElements :
        /\ mouse.down
        /\ clientX >= element.left
        /\ onMouseUp(EventPoint(clientX, clientY, element).x, EventPoint(clientX, clientY, element).y)
        /\ mouse' = [down |-> FALSE, at |-> <<clientX, clientY>>, clicks |-> 0]
        /\ Release

NextClick ==
    \/ ClickPress
    \/ ClickRelease
    \/ Timeout

SpecClick == InitClick /\ [][NextClick]_vars

(* A press in the header bands, on and off the boundaries between columns  *)
(* and between rows, then pointer moves over the whole canvas.             *)
ResizePresses == { <<147, 10>>, <<150, 10>>, <<153, 10>>, <<100, 10>>,
                   <<10, 41>>, <<10, 44>>, <<10, 47>>, <<10, 33>> }
ResizeXs == {0, 40, 99, 100, 101, 150, 163, 240}
ResizeYs == {0, 10, 21, 22, 23, 44, 50, 60}

InitResize == Seeded(Unselected, 250, 66, << >>, NoWindowArgs)

ResizePress ==
    \E p \in ResizePresses :
        /\ ~mouse.down
        /\ onMouseDown(p[1], p[2])
        /\ mouse' = [down |-> TRUE, at |-> p, clicks |-> 0]
        /\ Step

ResizeMove ==
    \E x \in ResizeXs, y \in ResizeYs :
        /\ onMouseMove(x, y)
        /\ mouse' = [mouse EXCEPT !.at = <<x, y>>]
        /\ Step

ResizeRelease ==
    /\ mouse.down
    /\ onMouseUp(mouse.at[1], mouse.at[2])
    /\ mouse' = [mouse EXCEPT !.down = FALSE]
    /\ Release

NextResize ==
    \/ ResizePress
    \/ ResizeMove
    \/ ResizeRelease

SpecResize == InitResize /\ [][NextResize]_vars

(* A selection drag: a press on the corner, on a column header, on a row   *)
(* header or on a cell, at either scroll offset, then pointer moves over   *)
(* the canvas and the release.                                             *)
DragPresses == { <<10, 10>>, <<100, 10>>, <<200, 10>>, <<10, 33>>, <<10, 50>>, <<100, 33>> }
DragXs == {10, 100, 200, 249}
DragYs == {10, 33, 50, 65}

InitDrag == Seeded(Unselected, 250, 66, << >>, NoWindowArgs)

DragPress ==
    \E p \in DragPresses :
        /\ ~mouse.down
        /\ onMouseDown(p[1], p[2])
        /\ mouse' = [down |-> TRUE, at |-> p, clicks |-> 0]
        /\ Step

DragMove ==
    \E x \in DragXs, y \in DragYs :
        /\ mouse.down
        /\ onMouseMove(x, y)
        /\ mouse' = [mouse EXCEPT !.at = <<x, y>>]
        /\ Step

DragRelease ==
    /\ mouse.down
    /\ onMouseUp(mouse.at[1], mouse.at[2])
    /\ mouse' = [mouse EXCEPT !.down = FALSE]
    /\ Release

DragScroll ==
    /\ ~mouse.down
    /\ Scroll

NextDrag ==
    \/ DragPress
    \/ DragMove
    \/ DragRelease
    \/ DragScroll
    \/ Timeout

SpecDrag == InitDrag /\ [][NextDrag]_vars

(* The start of a resize on the boundaries of the window of one axis, for  *)
(* every frozen count and offset: default sizes, a canvas of 250.  The     *)
(* pointer is pressed in the column header, on a boundary or one pixel off *)
(* it; onMouseDown returns at once for a press beyond the canvas.          *)
GrabXs == {rowHeaderWidth + c * defaultCellWidth + d : c \in 0..2, d \in {-1, 0, 1}}

InitGrab ==
    \E f \in 0..MaxFreeze, k \in 0..MaxIndex, x \in GrabXs :
        Seeded(Unselected, 250, 66, << >>,
               [freezeCount |-> f, startingIndex |-> k, x |-> x])

GrabWindow(args) ==
    calculateRowsOrColsSizes(args.freezeCount, Undefined, defaultCellWidth,
                             rowHeaderWidth, args.startingIndex, 250)

Grab ==
    /\ WindowStep
    /\ ~(windowArgs.x > canvasWidth)
    /\ ResizeHit(GrabWindow(windowArgs), windowArgs.x) # 0
    /\ windowResult' = [window |-> GrabWindow(windowArgs),
                        resize |-> ResizeStart(GrabWindow(windowArgs), windowArgs.x)]

NextGrab == Grab

SpecGrab == InitGrab /\ [][NextGrab]_vars

(* The keyboard on a selection: keys that move it or start the editor,     *)
(* the editor's own keys and input, and scrolling.  The editor is also     *)
(* opened by a double click on the button of cell (0,1), whose presses     *)
(* leave the selection where it was.  The event handled last is kept in    *)
(* windowArgs.                                                             *)
EditorSelections == Rectangles(0..1) \cup {Unselected}
ButtonPoint == <<100, 46>>
EditorGridKeys == {"a", "Enter"} \cup ArrowKeys

InitEditor ==
    \E sel \in EditorSelections : Seeded(sel, 250, 66, << >>, NoWindowArgs)

EditorEvent(event, key, shiftKey) ==
    /\ steps < MaxSteps
    /\ steps' = steps + 1
    /\ windowArgs' = [event |-> event, key |-> key, shiftKey |-> shiftKey]
    /\ mouse' = [mouse EXCEPT !.at = NoPoint, !.clicks = 0]
    /\ UNCHANGED <<canvas, pasteRun, windowResult, repaint>>

EditorGridKeyDown ==
    \E key \in EditorGridKeys, shiftKey \in BOOLEAN :
        /\ shiftKey => key \in ArrowKeys
        /\ onGridKeyDown(key, shiftKey)
        /\ EditorEvent("onGridKeyDown", key, shiftKey)

EditorKeyDown ==
    \E key \in EditorKeys :
        /\ onKeyDown(key)
        /\ EditorEvent("onKeyDown", key, FALSE)

EditorInput ==
    \E v \in EditTexts :
        /\ onEditInput(v)
        /\ EditorEvent("onChange", "", FALSE)

EditorScroll ==
    \E scrollTop \in ScrollPositions :
        /\ onScroll(scrollTop, scrollTop)
        /\ EditorEvent("onScroll", "", FALSE)

ButtonPress ==
    /\ ~mouse.down
    /\ HitLookup(ButtonPoint[1], ButtonPoint[2]) # NullTarget
    /\ onMouseDown(ButtonPoint[1], ButtonPoint[2])
    /\ mouse' = [down |-> TRUE, at |-> ButtonPoint,
                 clicks |-> IF mouse.at = ButtonPoint THEN mouse.clicks ELSE 0]
    /\ Release

ButtonRelease ==
    /\ mouse.down
    /\ onMouseUp(ButtonPoint[1], ButtonPoint[2])
    /\ mouse' = [down |-> FALSE, at |-> ButtonPoint, clicks |-> Min(mouse.clicks + 1, 2)]
    /\ Release

ButtonDoubleClick ==
    /\ ~mouse.down
    /\ mouse.at = ButtonPoint
    /\ mouse.clicks = 2
    /\ onDoubleClick(ButtonPoint[1], ButtonPoint[2])
    /\ mouse' = MouseIdle
    /\ Release

(* A timer of changeSelection runs between two events of the editor. *)
EditorTimeout ==
    /\ steps < MaxSteps
    /\ ScrollTimeout
    /\ NoChange
    /\ notified' = NoNotification
    /\ NoClick
    /\ steps' = steps + 1
    /\ windowArgs' = [event |-> "setTimeout", key |-> "", shiftKey |-> FALSE]
    /\ UNCHANGED <<state, canvas, mouse, pasteRun, windowResult, repaint>>

NextEditor ==
    \/ EditorGridKeyDown
    \/ EditorKeyDown
    \/ EditorInput
    \/ EditorScroll
    \/ ButtonPress
    \/ ButtonRelease
    \/ ButtonDoubleClick
    \/ EditorTimeout

SpecEditor == InitEditor /\ [][NextEditor]_vars

(* The editor opened by a key or by a double click, and the keys pressed   *)
(* in it.  The pointer is used on two points whose presses do not end an   *)
(* edit: the button of cell (0,1) and the fill knob of the selection       *)
(* (0,0)-(1,1), which lies in the read-only cell (1,1).  The canvas shows  *)
(* three columns and three rows, so that the selection is not followed by  *)
(* a scroll.  The event handled last is kept in windowArgs.                *)
KnobPoint == <<248, 64>>
ModePoints == {ButtonPoint, KnobPoint}
ModeSelections ==
    { [x1 |-> 0, y1 |-> 0, x2 |-> 1, y2 |-> 1],
      [x1 |-> 0, y1 |-> 0, x2 |-> 0, y2 |-> 0],
      [x1 |-> 1, y1 |-> 1, x2 |-> 1, y2 |-> 1],
      [x1 |-> 1, y1 |-> 0, x2 |-> 0, y2 |-> 1] }

InitMode ==
    \E sel \in ModeSelections : Seeded(sel, 350, 88, << >>, NoWindowArgs)

PointerEvent(event) ==
    /\ windowArgs' = [event |-> event, key |-> "", shiftKey |-> FALSE]
    /\ UNCHANGED <<canvas, pasteRun, windowResult, repaint>>

ModePress ==
    \E p \in ModePoints :
        /\ ~mouse.down
        /\ HitLookup(p[1], p[2]) # NullTarget \/ KnobHit(p[1], p[2])
        /\ onMouseDown(p[1], p[2])
        /\ mouse' = [down |-> TRUE, at |-> p,
                     clicks |-> IF mouse.at = p THEN mouse.clicks ELSE 0]
        /\ steps' = steps
        /\ PointerEvent("onMouseDown")

ModeRelease ==
    /\ mouse.down
    /\ onMouseUp(mouse.at[1], mouse.at[2])
    /\ mouse' = [down |-> FALSE, at |-> mouse.at, clicks |-> Min(mouse.clicks + 1, 2)]
    /\ steps' = steps
    /\ PointerEvent("onMouseUp")

ModeDoubleClick ==
    /\ ~mouse.down
    /\ mouse.clicks = 2
    /\ steps < MaxSteps
    /\ onDoubleClick(mouse.at[1], mouse.at[2])
    /\ mouse' = MouseIdle
    /\ steps' = steps + 1
    /\ PointerEvent("onDoubleClick")

NextMode ==
    \/ EditorGridKeyDown
    \/ EditorKeyDown
    \/ EditorInput
    \/ ModePress
    \/ ModeRelease
    \/ ModeDoubleClick
    \/ EditorTimeout

SpecMode == InitMode /\ [][NextMode]_vars

(* Presses on the cell area, inside cells and on the lines between them,   *)
(* with and without the shift key down and the editor open.                *)
BodyXs == {51, 100, 149, 150, 151, 200, 249}
BodyYs == {23, 33, 43, 44, 45, 60}
PressSelections ==
    { Unselected, [x1 |-> 0, y1 |-> 0, x2 |-> 0, y2 |-> 0], [x1 |-> 1, y1 |-> 1, x2 |-> 0, y2 |-> 0] }

InitPress ==
    \E sel \in PressSelections : Seeded(sel, 250, 66, << >>, NoWindowArgs)

PressKey ==
    \E key \in {"Shift", "a"} :
        /\ onGridKeyDown(key, key = "Shift")
        /\ OtherEvent

BodyPress ==
    \E x \in BodyXs, y \in BodyYs :
        /\ ~mouse.down
        /\ onMouseDown(x, y)
        /\ mouse' = [down |-> TRUE, at |-> <<x, y>>, clicks |-> 0]
        /\ Step

BodyRelease ==
    /\ mouse.down
    /\ onMouseUp(mouse.at[1], mouse.at[2])
    /\ mouse' = [mouse EXCEPT !.down = FALSE]
    /\ Release

NextPress ==
    \/ PressKey
    \/ BodyPress
    \/ BodyRelease
    \/ Scroll
    \/ Timeout

SpecPress == InitPress /\ [][NextPress]_vars

(* Paste events with a clipboard of plain text, of HTML, of both or of     *)
(* neither, on selections with and without an anchor.                      *)
Element(nodeName, children) == [nodeName |-> nodeName, children |-> children, innerHTML |-> << >>]
TableCell(nodeName, innerHTML) == [nodeName |-> nodeName, children |-> << >>, innerHTML |-> innerHTML]

TwoRows ==
    Element("TABLE", << Element("COLGROUP", << >>),
                        Element("TBODY", << Element("TR", << TableCell("TH", <<"h">>), TableCell("TD", <<"1">>),
                                                             TableCell("TD", <<"2">>) >>),
                                            Element("TR", << TableCell("TD", <<"3">>) >>) >>) >>)

HtmlPayloads ==
    { Element("DIV", << >>),
      Element("DIV", << Element("P", << Element("B", << >>) >>), Element("SPAN", << >>) >>),
      Element("DIV", << TwoRows >>),
      Element("DIV", << Element("META", << >>), Element("DIV", << Element("SPAN", << >>), TwoRows >>) >>),
      Element("DIV", << Element("TABLE", << >>) >>) }

ImportTexts == { << >>, <<"a", "\t", "b", "\n", "c">> }
ImportTypes == { {}, {"text/plain"}, {"text/html", "text/plain"} }
ImportSelections ==
    { Unselected,
      [x1 |-> -1, y1 |-> 0, x2 |-> -1, y2 |-> 0],
      [x1 |-> 0, y1 |-> -1, x2 |-> 0, y2 |-> -1],
      [x1 |-> 2, y1 |-> 3, x2 |-> 2, y2 |-> 3],
      [x1 |-> 3, y1 |-> 4, x2 |-> 2, y2 |-> 3] }

InitImport ==
    \E sel \in ImportSelections, text \in ImportTexts, html \in HtmlPayloads, types \in ImportTypes :
        Seeded(sel, 250, 66, text, [types |-> types, html |-> html])

Import ==
    /\ ~pasteDone
    /\ onPaste(windowArgs.types, windowArgs.html, clipboardText)
    /\ pasteDone' = TRUE
    /\ steps' = steps + 1
    /\ UNCHANGED <<clipboardText, mouse, canvas, windowRun, repaint>>

ImportScroll ==
    /\ ~pasteDone
    /\ Scroll

NextImport ==
    \/ Import
    \/ ImportScroll

SpecImport == InitImport /\ [][NextImport]_vars

(* One grid of values on the clipboard in both flavours: as a table of TR  *)
(* and TD elements and as text with tabs and line feeds.  The event offers *)
(* one flavour; the grid and the selection before the paste are kept in    *)
(* windowArgs.                                                             *)
MaxGridRows == 2
MaxGridColumns == 2
GridValues == { <<"a">>, << >> }
GridRows == UNION {[1..n -> GridValues] : n \in 1..MaxGridColumns}
Grids == UNION {[1..n -> GridRows] : n \in 1..MaxGridRows}

GridTable(grid) ==
    Element("DIV", << Element("TABLE", << Element("TBODY",
        [y \in 1..Len(grid) |->
            Element("TR", [x \in 1..Len(grid[y]) |-> TableCell("TD", grid[y][x])])]) >>) >>)

GridText(grid) == Join([y \in 1..Len(grid) |-> Join(grid[y], "\t", 1)], "\n", 1)

GridSelections ==
    { Unselected,
      [x1 |-> 2, y1 |-> 3, x2 |-> 2, y2 |-> 3],
      [x1 |-> 3, y1 |-> 4, x2 |-> 2, y2 |-> 3],
      [x1 |-> 0, y1 |-> 0, x2 |-> 1, y2 |-> 0] }

InitGrid ==
    \E sel \in GridSelections, grid \in Grids, types \in { {"text/html"}, {"text/plain"} } :
        Seeded(sel, 250, 66, GridText(grid),
               [types |-> types, html |-> GridTable(grid), grid |-> grid, selection |-> sel])

NextGrid == Import

SpecGrid == InitGrid /\ [][NextGrid]_vars

(* The clipboard text of a selection, after moves of its active corner.    *)
(* The text area's value is kept in windowResult.                          *)
MaxCopyCell == 2
CopySelections ==
    Rectangles(0..MaxCopyCell) \cup {Unselected, [x1 |-> -1, y1 |-> 0, x2 |-> -1, y2 |-> 0]}

InitCopy ==
    \E sel \in CopySelections : Seeded(sel, 250, 66, << >>, NoWindowArgs)

CopyMove ==
    /\ windowResult = NoWindow
    /\ \E key \in ArrowKeys :
          /\ onGridKeyDown(key, TRUE)
          /\ OtherEvent

Copy ==
    /\ ~editMode
    /\ setCopyPasteText.set
    /\ WindowStep
    /\ windowResult' = [value |-> setCopyPasteText.value]

NextCopy ==
    \/ CopyMove
    \/ Copy
    \/ Timeout

SpecCopy == InitCopy /\ [][NextCopy]_vars

(* Scrolls, which set state and so render when they change the offset,    *)
(* and arrow keys, which always set the selection, with the repaint        *)
(* effects and the browser's animation frames in between.                  *)
RepaintFrame(handled) ==
    /\ steps' = steps + handled
    /\ UNCHANGED <<canvas, pasteRun, windowRun>>

RepaintScroll ==
    \E scrollLeft \in ScrollPositions, scrollTop \in ScrollPositions :
        /\ steps < MaxSteps
        /\ onScroll(scrollLeft, scrollTop)
        /\ IF dataOffset' # dataOffset THEN Render ELSE UNCHANGED repaint
        /\ UNCHANGED mouse
        /\ RepaintFrame(1)

RepaintKey ==
    \E key \in ArrowKeys :
        /\ steps < MaxSteps
        /\ ~NothingSelected
        /\ onGridKeyDown(key, FALSE)
        /\ Render
        /\ UNCHANGED mouse
        /\ RepaintFrame(1)

RunEffect ==
    /\ Effect
    /\ UNCHANGED <<state, mouse, outputs>>
    /\ RepaintFrame(0)

RunAnimationFrame ==
    /\ AnimationFrame
    /\ UNCHANGED <<state, mouse, outputs>>
    /\ RepaintFrame(0)

InitRepaint ==
    \E sel \in {Unselected, [x1 |-> 0, y1 |-> 0, x2 |-> 0, y2 |-> 0]} :
        Seeded(sel, 250, 66, << >>, NoWindowArgs)

NextRepaint ==
    \/ RepaintScroll
    \/ RepaintKey
    \/ RunEffect
    \/ RunAnimationFrame
    \/ Timeout

SpecRepaint == InitRepaint /\ [][NextRepaint]_vars

(* The while loop of calculateRowsOrColsSizes, in both versions, one pass  *)
(* at a time: windowResult holds the window built so far, the index the    *)
(* next pass pushes, and whether the loop has broken.  A size prop of 0 is  *)
(* among the inputs.  A size function is given up to LastSizedCell, and no *)
(* pass goes beyond it.                                                    *)
(* The loop only adds sizes to the starting size and compares the sum with *)
(* the extent, so a run is the same in every unit of length.  In the runs  *)
(* with HalvingSizes, where each cell is half as wide as the one before    *)
(* it (a size function such as c => 100 / 2 ** c), the unit is the size of *)
(* the cell LastSizedCell, so that every size of the run is a whole number *)
(* of units; the header is none or a quarter of cell 0, and the extent is  *)
(* the header and three quarters of cell 0, or the header and three times  *)
(* cell 0.  No run of these is a borderline one, in which the sizes add up *)
(* to the extent only in the limit and the rounding of the sums decides:   *)
(* the loop either breaks by cell 2 or stays short of the extent by more   *)
(* than a sixteenth of cell 0.                                             *)
ZeroSize == [kind |-> "number", num |-> 0]
HalvingSizes == [kind |-> "function", fn |-> [c \in 0..LastSizedCell |-> 2^(LastSizedCell - c)]]
HalvingHeaders == {0, 2^(LastSizedCell - 2)}
HalvingExtents == {3 * 2^(LastSizedCell - 2), 3 * 2^LastSizedCell}

InitLoop ==
    \/ \E f \in 0..MaxFreeze, k \in 0..MaxIndex, header \in HalvingHeaders,
          extent \in HalvingExtents :
           Seeded(Unselected, 250, 66, << >>,
                  [version |-> "SheetCopy.jsx", freezeCount |-> f, sizeProp |-> HalvingSizes,
                   defaultValue |-> defaultCellWidth, startingIndex |-> k,
                   startingSize |-> header, visibleArea |-> header + extent])
    \/ \E f \in 0..MaxFreeze, sizeProp \in SizeProps \cup {ZeroSize}, default \in DefaultSizes,
          k \in 0..MaxIndex, header \in HeaderSizes, area \in 0..MaxArea :
           Seeded(Unselected, 250, 66, << >>,
                  [version |-> "SheetCopy.jsx", freezeCount |-> f, sizeProp |-> sizeProp,
                   defaultValue |-> default, startingIndex |-> k, startingSize |-> header,
                   visibleArea |-> area])
    \/ \E size \in 0..MaxSize, k \in 0..MaxIndex, header \in HeaderSizes, area \in 0..MaxArea :
           Seeded(Unselected, 250, 66, << >>,
                  [version |-> "part_000", size |-> size, startingIndex |-> k,
                   startingSize |-> header, visibleArea |-> area])

LoopStep ==
    UNCHANGED <<state, canvas, mouse, outputs, steps, pasteRun, windowArgs, repaint>>

EnterLoop ==
    /\ windowResult = NoWindow
    /\ windowArgs.version = "SheetCopy.jsx"
    /\ windowResult' =
          [window |-> BeforeLoop(windowArgs.freezeCount, windowArgs.sizeProp,
                                 windowArgs.defaultValue, windowArgs.startingSize,
                                 windowArgs.startingIndex),
           ind |-> ResumeIndex(windowArgs.freezeCount, windowArgs.startingIndex),
           done |-> FALSE]
    /\ LoopStep

IterateLoop ==
    /\ windowResult # NoWindow
    /\ windowArgs.version = "SheetCopy.jsx"
    /\ ~windowResult.done
    /\ windowResult.ind <= LastSizedCell
    /\ windowResult' = LoopBody(windowResult.window, windowResult.ind, windowArgs.sizeProp,
                                windowArgs.defaultValue, windowArgs.visibleArea)
    /\ LoopStep

EnterLoopPart000 ==
    /\ windowResult = NoWindow
    /\ windowArgs.version = "part_000"
    /\ windowResult' =
          [window |-> BeforeLoopPart000(windowArgs.size, windowArgs.startingIndex,
                                        windowArgs.startingSize),
           ind |-> windowArgs.startingIndex + 1,
           done |-> FALSE]
    /\ LoopStep

IterateLoopPart000 ==
    /\ windowResult # NoWindow
    /\ windowArgs.version = "part_000"
    /\ ~windowResult.done
    /\ windowResult.ind <= LastSizedCell
    /\ windowResult' = UniformBody(windowResult.window, windowResult.ind, windowArgs.size,
                                   windowArgs.visibleArea)
    /\ LoopStep

NextLoop ==
    \/ EnterLoop
    \/ IterateLoop
    \/ EnterLoopPart000
    \/ IterateLoopPart000

(* The loop is a piece of sequential code: it keeps running. *)
SpecLoop == InitLoop /\ [][NextLoop]_vars /\ WF_vars(NextLoop)

(* cellToAbsCoordinate on one axis for the cells past the last visible     *)
(* one, with a frozen leading block, every offset and sizes that differ    *)
(* from cell to cell.                                                      *)
MaxBeyond == 3

InitBeyond ==
    \E f \in 0..MaxFreeze, sizeProp \in SizeProps, default \in DefaultSizes,
       k \in 0..MaxIndex, header \in HeaderSizes, area \in 0..MaxArea, d \in 1..MaxBeyond :
        Seeded(Unselected, 250, 66, << >>,
               [freezeCount |-> f, sizeProp |-> sizeProp, defaultValue |-> default,
                startingIndex |-> k, startingSize |-> header, visibleArea |-> area,
                beyond |-> d])

ConvertBeyond ==
    /\ WindowStep
    /\ windowResult' =
          LET w == calculateRowsOrColsSizes(windowArgs.freezeCount, windowArgs.sizeProp,
                                            windowArgs.defaultValue, windowArgs.startingSize,
                                            windowArgs.startingIndex, windowArgs.visibleArea)
              cell == Last(w.visible) + windowArgs.beyond
          IN  [window |-> w, cell |-> cell,
               abs |-> AxisToAbs(w, windowArgs.sizeProp, windowArgs.defaultValue,
                                 windowArgs.startingSize, windowArgs.startingIndex, cell)]

NextBeyond == ConvertBeyond

SpecBeyond == InitBeyond /\ [][NextBeyond]_vars

(* The scroll-follow of changeSelection for every frozen count, offset and *)
(* active corner, on the default sizes and a canvas of 250 x 66.           *)
FollowColumns(args) ==
    calculateRowsOrColsSizes(args.freezeColumns, Undefined, defaultCellWidth,
                             rowHeaderWidth, args.dataOffset.x, 250)
FollowRows(args) ==
    calculateRowsOrColsSizes(args.freezeRows, Undefined, defaultCellHeight,
                             columnHeaderHeight, args.dataOffset.y, 66)

InitFollow ==
    \E fc \in 0..MaxFreeze, fr \in 0..1, ox \in 0..MaxIndex, oy \in 0..1,
       x2 \in -1..(MaxFreeze + MaxIndex + 2), y2 \in {-1, 0, 1, 2, 5} :
        Seeded(Unselected, 250, 66, << >>,
               [freezeColumns |-> fc, freezeRows |-> fr, dataOffset |-> [x |-> ox, y |-> oy],
                x2 |-> x2, y2 |-> y2])

ComputeFollow ==
    /\ WindowStep
    /\ windowResult' = ScrollToP2(FollowColumns(windowArgs), FollowRows(windowArgs),
                                  windowArgs.dataOffset, windowArgs.freezeColumns,
                                  windowArgs.freezeRows, windowArgs.x2, windowArgs.y2)

NextFollow == ComputeFollow

SpecFollow == InitFollow /\ [][NextFollow]_vars

----------------------------------------------------------------------------
(* Claims about the event handlers, under Spec.                            *)

CellDragInProgress ==
    selectionInProgress /\ ~rowSelectionInProgress /\ ~columnSelectionInProgress

InteractionsInProgress ==
    {i \in 1..6 :
        << CellDragInProgress, rowSelectionInProgress, columnSelectionInProgress,
           columnResize # NoResize, rowResize # NoResize, knobDragInProgress >>[i]}

(* C1: in every reachable state at most one of cell-drag selection, row    *)
(* selection, column selection, column resize, row resize and fill-handle  *)
(* drag is in progress.                                                    *)
C1_OneInteractionAtATime == Cardinality(InteractionsInProgress) <= 1

(* C2: no reachable state has both a cell under edit and a fill-handle     *)
(* drag in progress.                                                       *)
C2_EditExcludesFillDrag == ~(editMode /\ knobDragInProgress)

(* C3: no change record handed to onChange targets a read-only cell.       *)
C3_NoWriteToReadOnly ==
    \A i \in 1..Len(changes) : ~cellReadOnly(changes[i].x, changes[i].y)

(* C4: every change record handed to onChange has x >= 0 and y >= 0, also  *)
(* when nothing is selected.                                               *)
C4_NoOutOfRangeWrite ==
    \A i \in 1..Len(changes) : changes[i].x >= 0 /\ changes[i].y >= 0

SelectionNonNegative ==
    selection.x1 >= 0 /\ selection.y1 >= 0 /\ selection.x2 >= 0 /\ selection.y2 >= 0

NavigationKeyStep ==
    \E key \in ArrowKeys \cup {"Enter", "Tab"} :
        \/ onKeyDown(key)
        \/ \E shiftKey \in BOOLEAN : onGridKeyDown(key, shiftKey)

(* C5: an arrow, Enter or Tab key event that starts from a selection whose *)
(* four coordinates are all >= 0 leaves all four >= 0, editing or not.     *)
C5_NavigationClamps ==
    [][(SelectionNonNegative /\ NavigationKeyStep) => SelectionNonNegative']_vars

DeleteStep ==
    \E key \in {"Delete", "Backspace"} : onGridKeyDown(key, FALSE)

RectWidth(r) == Abs(r.x2 - r.x1) + 1
RectHeight(r) == Abs(r.y2 - r.y1) + 1
InRect(r, x, y) ==
    /\ Min(r.x1, r.x2) <= x /\ x <= Max(r.x1, r.x2)
    /\ Min(r.y1, r.y2) <= y /\ y <= Max(r.y1, r.y2)
CellsOf(batch) == {<<batch[i].x, batch[i].y>> : i \in 1..Len(batch)}

(* C9: Delete/Backspace with selection (x1,y1)-(x2,y2) emits one onChange  *)
(* batch of (|x2-x1|+1)*(|y2-y1|+1) changes, one for each cell of the      *)
(* rectangle, each cell once, every value null; the selection, the edit    *)
(* state and the scroll offset are unchanged.                              *)
C9_DeleteClearsSelection ==
    [][DeleteStep =>
        /\ onChangeCalls' = 1
        /\ Len(changes') = RectWidth(selection) * RectHeight(selection)
        /\ Cardinality(CellsOf(changes')) = Len(changes')
        /\ \A i \in 1..Len(changes') :
              /\ InRect(selection, changes'[i].x, changes'[i].y)
              /\ changes'[i].value = Null
        /\ selection' = selection
        /\ editCell' = editCell
        /\ editValue' = editValue
        /\ dataOffset' = dataOffset]_vars

(* The selection (1,1)-(2,2) has been deleted: four null changes at        *)
(* (1,1), (2,1), (1,2), (2,2).                                             *)
C9_Witness ==
    /\ selection = [x1 |-> 1, y1 |-> 1, x2 |-> 2, y2 |-> 2]
    /\ onChangeCalls = 1
    /\ Len(changes) = 4
    /\ CellsOf(changes) = {<<1, 1>>, <<2, 1>>, <<1, 2>>, <<2, 2>>}
    /\ \A i \in 1..4 : changes[i].value = Null

----------------------------------------------------------------------------
(* Claims about the fill drag, under SpecFill.                             *)
FillReleaseStep ==
    /\ knobDragInProgress
    /\ onMouseUp(ReleaseElsewhere[1], ReleaseElsewhere[2])

CellsIn(r) ==
    {<<x, y>> : x \in Min(r.x1, r.x2)..Max(r.x1, r.x2), y \in Min(r.y1, r.y2)..Max(r.y1, r.y2)}

(* the cells of the candidate area outside the fixed region *)
Extension(fixed, area) == CellsIn(area) \ CellsIn(fixed)
TopOf(cells) == CHOOSE y \in {c[2] : c \in cells} : \A c \in cells : y <= c[2]
LeftOf(cells) == CHOOSE x \in {c[1] : c \in cells} : \A c \in cells : x <= c[1]

(* C6: on the release of a fill drag the batch has one change for each     *)
(* cell of the extension; in a vertical extension the k-th row from its    *)
(* top gets, in column x, the source value at (x, sy1 + k mod h), h the    *)
(* height of the fixed region; in a horizontal extension the k-th column   *)
(* from its left gets, in row y, the source value at (sx1 + k mod w, y).   *)
C6_FillCyclesSources ==
    [][FillReleaseStep =>
        LET s == Normalized(selection)
            k == Normalized(knobArea)
            ext == Extension(s, k)
            vertical == k.x1 = s.x1 /\ k.x2 = s.x2
            h == s.y2 - s.y1 + 1
            w == s.x2 - s.x1 + 1
        IN  /\ CellsOf(changes') = ext
            /\ Len(changes') = Cardinality(ext)
            /\ \A i \in 1..Len(changes') :
                  LET c == changes'[i]
                  IN  c.value =
                         IF vertical
                         THEN sourceData(c.x, s.y1 + ((c.y - TopOf(ext)) % h))
                         ELSE sourceData(s.x1 + ((c.x - LeftOf(ext)) % w), c.y)]_vars

(* The fixed region (0,0)-(1,1), holding [[1,2],[3,4]], has been extended  *)
(* three rows down: the rows 2, 3, 4 got [1,2], [3,4], [1,2].              *)
C6_Witness ==
    /\ selection = [x1 |-> 0, y1 |-> 0, x2 |-> 1, y2 |-> 4]
    /\ ~knobDragInProgress
    /\ changes = << [x |-> 0, y |-> 2, value |-> <<"1">>], [x |-> 1, y |-> 2, value |-> <<"2">>],
                    [x |-> 0, y |-> 3, value |-> <<"3">>], [x |-> 1, y |-> 3, value |-> <<"4">>],
                    [x |-> 0, y |-> 4, value |-> <<"1">>], [x |-> 1, y |-> 4, value |-> <<"2">>] >>

Contains(outer, inner) ==
    /\ outer.x1 <= inner.x1 /\ inner.x2 <= outer.x2
    /\ outer.y1 <= inner.y1 /\ inner.y2 <= outer.y2

(* C7: after the release of a fill drag the normalized selection contains  *)
(* the normalized selection the drag began with, wherever the pointer      *)
(* went, also when it ended on a cell inside the fixed region.             *)
C7_FillKeepsFixedRegion ==
    [][FillReleaseStep => Contains(Normalized(selection'), Normalized(selection))]_vars

----------------------------------------------------------------------------
(* Claims about the plain-text paste, under SpecPaste.                     *)
PasteStep == ~pasteDone /\ parsePastedText(clipboardText)

SelectionDefined ==
    selection.x1 # -1 /\ selection.y1 # -1 /\ selection.x2 # -1 /\ selection.y2 # -1

RECURSIVE UnixLines(_, _)
(* the text with every CR LF written as LF *)
UnixLines(text, i) ==
    IF i > Len(text) THEN << >>
    ELSE IF text[i] = "\r" /\ i < Len(text) /\ text[i + 1] = "\n"
    THEN UnixLines(text, i + 1)
    ELSE << text[i] >> \o UnixLines(text, i + 1)

RECURSIVE Joined(_, _)
(* the values of a batch, a tab between two changes of one row and a       *)
(* newline between two rows                                                *)
Joined(batch, i) ==
    IF i > Len(batch) THEN << >>
    ELSE batch[i].value
         \o (IF i = Len(batch) THEN << >>
             ELSE IF batch[i + 1].y = batch[i].y THEN << "\t" >> ELSE << "\n" >>)
         \o Joined(batch, i + 1)

RightmostOf(batch) ==
    CHOOSE x \in {batch[i].x : i \in 1..Len(batch)} : \A i \in 1..Len(batch) : batch[i].x <= x

(* C8: a plain-text paste on a defined selection with top-left corner      *)
(* (ax, ay) hands onChange one batch that holds the fields of the text in  *)
(* row-major order: the first at (ax, ay), a field after a tab one column  *)
(* to the right, a field after a newline in column ax of the next row, so  *)
(* that field j of row i is at (ax + j, ay + i); the selection becomes     *)
(* (ax, ay)-(ax + max(C_i) - 1, ay + R - 1).                               *)
C8_PlainTextPaste ==
    [][(SelectionDefined /\ PasteStep) =>
        LET a == Normalized(selection)
            b == changes'
        IN  /\ onChangeCalls' = 1
            /\ Len(b) >= 1
            /\ b[1].x = a.x1 /\ b[1].y = a.y1
            /\ \A i \in 1..(Len(b) - 1) :
                  \/ b[i + 1].y = b[i].y /\ b[i + 1].x = b[i].x + 1
                  \/ b[i + 1].y = b[i].y + 1 /\ b[i + 1].x = a.x1
            /\ \A i \in 1..Len(b) :
                  \A j \in 1..Len(b[i].value) : b[i].value[j] \notin {"\t", "\n"}
            /\ Joined(b, 1) = UnixLines(clipboardText, 1)
            /\ selection' = [x1 |-> a.x1, y1 |-> a.y1,
                             x2 |-> RightmostOf(b), y2 |-> b[Len(b)].y]]_vars

(* "a\tb\nc\td" has been pasted at (2,3).                                  *)
C8_Witness ==
    /\ pasteDone
    /\ clipboardText = ExampleText
    /\ changes = << [x |-> 2, y |-> 3, value |-> <<"a">>], [x |-> 3, y |-> 3, value |-> <<"b">>],
                    [x |-> 2, y |-> 4, value |-> <<"c">>], [x |-> 3, y |-> 4, value |-> <<"d">>] >>
    /\ selection = [x1 |-> 2, y1 |-> 3, x2 |-> 3, y2 |-> 4]

----------------------------------------------------------------------------
(* Claims about the window, under SpecWindow.                              *)

(* C10: with uniform size s > 0, scroll offset k >= 0 and nothing frozen,  *)
(* the visible indices of the window are k, k+1, ..., k+n, and every entry *)
(* has end[i] - start[i] = s.                                              *)
C10_UniformWindow ==
    windowResult # NoWindow =>
        LET w == windowResult.window
        IN  /\ Len(w.visible) >= 1
            /\ Len(w.start) = Len(w.visible)
            /\ Len(w.end) = Len(w.visible)
            /\ \A i \in 1..Len(w.visible) :
                  /\ w.visible[i] = windowArgs.startingIndex + i - 1
                  /\ w.end[i] - w.start[i] = windowArgs.size

(* Size 3 from offset 2 behind a header of 2, area 10: the entries 2, 3, 4 *)
(* at 2..5, 5..8, 8..11.                                                   *)
C10_Witness ==
    /\ windowArgs = [size |-> 3, startingIndex |-> 2, startingSize |-> 2, visibleArea |-> 10]
    /\ windowResult = [version |-> "SheetCopy.jsx",
                       window |-> [visible |-> <<2, 3, 4>>, start |-> <<2, 5, 8>>,
                                   end |-> <<5, 8, 11>>]]

----------------------------------------------------------------------------
(* Claims about the window with a frozen block, under SpecFrozen.          *)

(* C11: with frozen count f > 0 the first f entries of the window are the  *)
(* indices 0, 1, ..., f-1, in that order, whatever the scroll offset and   *)
(* the visible extent.                                                     *)
C11_FrozenBlockLeads ==
    (windowResult # NoWindow /\ windowArgs.freezeCount > 0) =>
        LET w == windowResult.window
        IN  /\ Len(w.visible) >= windowArgs.freezeCount
            /\ \A i \in 1..windowArgs.freezeCount : w.visible[i] = i - 1

(* Two frozen cells, scrolled to offset 3: the window begins 0, 1, 3.      *)
C11_Witness ==
    /\ windowResult # NoWindow
    /\ windowArgs.freezeCount = 2
    /\ windowArgs.startingIndex = 3
    /\ Len(windowResult.window.visible) >= 3
    /\ SubSeq(windowResult.window.visible, 1, 3) = <<0, 1, 3>>

(* C12: every window is well formed: the visible indices increase          *)
(* strictly, start[i] = end[i-1] for i >= 1, end[i] - start[i] is the size *)
(* of visible[i], and the last end reaches the requested visible extent.   *)
C12_WindowWellFormed ==
    windowResult # NoWindow =>
        LET w == windowResult.window
            n == Len(w.visible)
        IN  /\ n >= 1
            /\ Len(w.start) = n
            /\ Len(w.end) = n
            /\ \A i \in 2..n : w.visible[i - 1] < w.visible[i]
            /\ \A i \in 2..n : w.start[i] = w.end[i - 1]
            /\ \A i \in 1..n :
                  w.end[i] - w.start[i] =
                     createRowOrColumnPropFunction(windowArgs.sizeProp, windowArgs.defaultValue,
                                                   w.visible[i])
            /\ w.end[n] >= windowArgs.visibleArea

(* One frozen cell and array sizes [1,4,2], offset 0, header 2, area 8:    *)
(* cells 0, 1, 2 at 2..3, 3..7, 7..9.                                      *)
C12_Witness ==
    /\ windowArgs.freezeCount = 1
    /\ windowArgs.sizeProp = [kind |-> "array", arr |-> <<1, 4, 2>>]
    /\ windowArgs.visibleArea = 8
    /\ windowResult = [version |-> "SheetCopy.jsx",
                       window |-> [visible |-> <<0, 1, 2>>, start |-> <<2, 3, 7>>,
                                   end |-> <<3, 7, 9>>]]

----------------------------------------------------------------------------
(* Claims about the pixel/cell conversions, under SpecPixel.               *)
InSomeSpan(w, abs) == \E i \in 1..Len(w.visible) : w.start[i] <= abs /\ abs < w.end[i]

(* C13: for a point inside the span [start, end) of a window entry on      *)
(* both axes, the rectangle at cellToAbsCoordinate of the resolved cell,   *)
(* with that cell's width and height, contains the point.                  *)
C13_PixelRoundTrip ==
    (/\ windowResult # NoWindow
     /\ InSomeSpan(Columns, windowArgs.absX)
     /\ InSomeSpan(Rows, windowArgs.absY)) =>
        LET c == windowResult.cell
            o == windowResult.abs
        IN  /\ o.x <= windowArgs.absX /\ windowArgs.absX < o.x + cellWidth(c.x)
            /\ o.y <= windowArgs.absY /\ windowArgs.absY < o.y + cellHeight(c.y)

----------------------------------------------------------------------------
(* Claims about the hit-test lookup, under SpecHit.                        *)
InsertedTargets == AllTargets(Columns, Rows, 1)

StrictlyInside(t, x, y) ==
    /\ t.x < x
    /\ x < t.x + t.w
    /\ t.yTwice < 2 * y
    /\ 2 * y < t.yTwice + 2 * t.h

(* C14: a point strictly inside the rectangle of an inserted target gets   *)
(* that target from the lookup (bin of the point, then containment), in    *)
(* whichever of the bins of the rectangle the point falls; where targets   *)
(* overlap, the target may give way only to one inserted after it that     *)
(* holds the point too.  A point outside every inserted rectangle gets no  *)
(* target.                                                                 *)
C14_HitLookupFindsTargets ==
    windowResult # NoWindow =>
        LET x == windowArgs.x
            y == windowArgs.y
            all == InsertedTargets
            found == windowResult.hitTarget
        IN  /\ \A i \in 1..Len(all) :
                  StrictlyInside(all[i], x, y) =>
                     \/ found = all[i]
                     \/ \E j \in (i + 1)..Len(all) :
                           found = all[j] /\ TargetContains(all[j], x, y)
            /\ (\A i \in 1..Len(all) : ~TargetContains(all[i], x, y)) => found = NullTarget

----------------------------------------------------------------------------
(* Claims about click targets, under SpecClick.                            *)
ClickReleaseStep == mouse.down /\ ~mouse'.down

PressedTarget == HitLookup(mouse.at[1], mouse.at[2])

(* C15: on a pointer-up, onClick of a target is invoked if and only if the *)
(* preceding pointer-down resolved that target and the release point, in   *)
(* the sheet's coordinates, lies inside that target's rectangle; after the *)
(* pointer-up no target is armed.                                          *)
C15_ClickOnSameTarget ==
    [][ClickReleaseStep =>
          /\ \A i \in 1..Len(InsertedTargets) :
                LET t == InsertedTargets[i]
                IN  (clicked' = << t.onClick >>) <=>
                       /\ PressedTarget = t
                       /\ TargetContains(t, mouse'.at[1], mouse'.at[2])
          /\ buttonClickMouseDownCoordinates' = NoButton]_vars

----------------------------------------------------------------------------
(* Claims about resize drags, under SpecResize.                            *)
ResizeMoveStep == mouse'.down = mouse.down /\ steps' = steps + 1

Clamped(size, minimumSize, request) ==
    /\ request >= minimumSize
    /\ IF size >= minimumSize THEN request = size ELSE request = minimumSize

(* C16: while a column or a row is being resized, every pointer move       *)
(* issues exactly one size-change request, for the index captured at the   *)
(* press, whose size is the captured size plus the distance of the pointer *)
(* from the captured start pixel, or the minimum (50 wide, 22 high) where  *)
(* that would be less.                                                     *)
C16_ResizeRequestClamped ==
    [][ResizeMoveStep =>
          /\ columnResize # NoResize =>
                /\ Len(sizeRequest') = 1
                /\ sizeRequest'[1].axis = "column"
                /\ sizeRequest'[1].index = columnResize.colIdx
                /\ sizeRequest'[1].size >= 50
                /\ Clamped(columnResize.oldWidth + (mouse'.at[1] - columnResize.startX),
                           minimumColumnWidth, sizeRequest'[1].size)
          /\ (columnResize = NoResize /\ rowResize # NoResize) =>
                /\ Len(sizeRequest') = 1
                /\ sizeRequest'[1].axis = "row"
                /\ sizeRequest'[1].index = rowResize.rowIdx
                /\ sizeRequest'[1].size >= 22
                /\ Clamped(rowResize.oldHeight + (mouse'.at[2] - rowResize.startY),
                           minimumRowHeight, sizeRequest'[1].size)]_vars

(* Column 0 (100 wide, boundary at 150) is being resized and the pointer   *)
(* is at x = 0, 150 pixels past the boundary: the request is for 50.       *)
C16_Witness ==
    /\ columnResize # NoResize
    /\ columnResize.colIdx = 0
    /\ mouse.down
    /\ mouse.at[1] = 0
    /\ sizeRequest = << [axis |-> "column", index |-> 0, size |-> 50] >>

----------------------------------------------------------------------------
(* Claims about the selection notification, under Spec.                    *)

(* C17: every onSelectionChanged call carries x1 <= x2 and y1 <= y2, and   *)
(* its arguments are the lesser and the greater of the corners of the      *)
(* selection the same handler stored, which may be inverted.               *)
C17_NotificationNormalized ==
    notified # NoNotification =>
        /\ notified[1] <= notified[3]
        /\ notified[2] <= notified[4]
        /\ {notified[1], notified[3]} = {selection.x1, selection.x2}
        /\ {notified[2], notified[4]} = {selection.y1, selection.y2}

(* A drag from cell (1,1) up and left to cell (0,0) stores the inverted    *)
(* selection and notifies (0, 0, 1, 1).                                    *)
C17_Witness ==
    /\ selection = [x1 |-> 1, y1 |-> 1, x2 |-> 0, y2 |-> 0]
    /\ notified = <<0, 0, 1, 1>>

----------------------------------------------------------------------------
(* Claims about the keyboard, under SpecEditor.                            *)
KeyDownStep(event, key) ==
    /\ steps' = steps + 1
    /\ windowArgs'.event = event
    /\ windowArgs'.key = key

(* C18: Escape in the editor ends editing (the edit cell becomes (-1,-1)), *)
(* calls onChange not at all, and leaves the selection and the scroll      *)
(* offset as they were.                                                    *)
C18_EscapeDiscards ==
    [][KeyDownStep("onKeyDown", "Escape") =>
          /\ editMode
          /\ editCell' = [x |-> -1, y |-> -1]
          /\ onChangeCalls' = 0
          /\ changes' = << >>
          /\ selection' = selection
          /\ dataOffset' = dataOffset]_vars

(* Escape was pressed after "x" was typed into the editor of cell (0,0).   *)
C18_Witness ==
    /\ windowArgs # NoWindowArgs
    /\ windowArgs.event = "onKeyDown"
    /\ windowArgs.key = "Escape"
    /\ editValue = << "x" >>
    /\ editCell = NotEditing
    /\ selection = [x1 |-> 0, y1 |-> 0, x2 |-> 0, y2 |-> 0]

OneCell(x, y) == [x1 |-> x, y1 |-> y, x2 |-> x, y2 |-> y]

(* C19: Enter or Tab in the editor of cell (ex, ey) with buffer v calls    *)
(* onChange exactly once, with the one change {x: ex, y: ey, value: v},    *)
(* ends editing, and collapses the selection to the one cell below (Enter) *)
(* or right of (Tab) its anchor (x1, y1).                                  *)
C19_EnterTabCommit ==
    [][(KeyDownStep("onKeyDown", "Enter") \/ KeyDownStep("onKeyDown", "Tab")) =>
          /\ editMode
          /\ onChangeCalls' = 1
          /\ Len(changes') = 1
          /\ changes'[1].x = editCell.x
          /\ changes'[1].y = editCell.y
          /\ changes'[1].value = editValue
          /\ editCell' = [x |-> -1, y |-> -1]
          /\ selection' = IF windowArgs'.key = "Enter"
                          THEN OneCell(selection.x1, selection.y1 + 1)
                          ELSE OneCell(selection.x1 + 1, selection.y1)]_vars

(* Enter was pressed in the editor of the button's cell (0,1), opened by a *)
(* double click while the selection was the range from (1,0) to (0,1): the *)
(* change is that of cell (0,1) and the selection is the cell (1,1).       *)
C19_Witness ==
    /\ windowArgs # NoWindowArgs
    /\ windowArgs.event = "onKeyDown"
    /\ windowArgs.key = "Enter"
    /\ changes = << [x |-> 0, y |-> 1, value |-> editValue] >>
    /\ onChangeCalls = 1
    /\ editCell = NotEditing
    /\ selection = OneCell(1, 1)

Direction(key) ==
    [x |-> IF key = "ArrowRight" THEN 1 ELSE IF key = "ArrowLeft" THEN -1 ELSE 0,
     y |-> IF key = "ArrowDown" THEN 1 ELSE IF key = "ArrowUp" THEN -1 ELSE 0]

GridArrowStep ==
    /\ steps' = steps + 1
    /\ windowArgs'.event = "onGridKeyDown"
    /\ windowArgs'.key \in ArrowKeys
    /\ ~editMode
    /\ ~NothingSelected

(* C20: an arrow key on the grid, not editing and with a selection, moves  *)
(* the active corner (x2, y2) one cell in the key's direction, held at 0;  *)
(* with shift the anchor (x1, y1) stays, without it the anchor becomes the *)
(* new active corner; onChange is not called.                              *)
C20_GridArrowMoves ==
    [][GridArrowStep =>
          LET d == Direction(windowArgs'.key)
              nx == IF selection.x2 + d.x < 0 THEN 0 ELSE selection.x2 + d.x
              ny == IF selection.y2 + d.y < 0 THEN 0 ELSE selection.y2 + d.y
          IN  /\ selection'.x2 = nx
              /\ selection'.y2 = ny
              /\ windowArgs'.shiftKey => selection'.x1 = selection.x1 /\ selection'.y1 = selection.y1
              /\ ~windowArgs'.shiftKey => selection'.x1 = nx /\ selection'.y1 = ny
              /\ onChangeCalls' = 0
              /\ changes' = << >>]_vars

(* Shift+ArrowLeft on the range from (1,1) to (0,0): the active corner is  *)
(* held at column 0 and the anchor stays at (1,1).                         *)
C20_Witness ==
    /\ windowArgs # NoWindowArgs
    /\ windowArgs.event = "onGridKeyDown"
    /\ windowArgs.key = "ArrowLeft"
    /\ windowArgs.shiftKey
    /\ steps = 1
    /\ selection = [x1 |-> 1, y1 |-> 1, x2 |-> 0, y2 |-> 0]

----------------------------------------------------------------------------
(* Claims about presses and releases, under SpecPress.                     *)
SpanIndex(w, abs) ==
    w.visible[CHOOSE i \in 1..Len(w.visible) : w.start[i] <= abs /\ abs < w.end[i]]

CellBodyPressStep ==
    /\ ~mouse.down
    /\ mouse'.down
    /\ mouse'.at[1] >= rowHeaderWidth
    /\ mouse'.at[2] >= columnHeaderHeight
    /\ InSomeSpan(Columns, mouse'.at[1])
    /\ InSomeSpan(Rows, mouse'.at[2])
    /\ HitLookup(mouse'.at[1], mouse'.at[2]) = NullTarget
    /\ ~KnobHit(mouse'.at[1], mouse'.at[2])

(* C21: a primary press on a cell body, off every click target, resize     *)
(* boundary and the fill handle, makes the pressed cell the active corner  *)
(* (x2, y2); the anchor (x1, y1) becomes the pressed cell, or stays as it  *)
(* was if shift is down; the cell drag selection is in progress and no     *)
(* cell is under edit.                                                     *)
C21_PressSelectsCell ==
    [][CellBodyPressStep =>
          LET cx == SpanIndex(Columns, mouse'.at[1])
              cy == SpanIndex(Rows, mouse'.at[2])
          IN  /\ selection'.x2 = cx
              /\ selection'.y2 = cy
              /\ shiftKeyDown => selection'.x1 = selection.x1 /\ selection'.y1 = selection.y1
              /\ ~shiftKeyDown => selection'.x1 = cx /\ selection'.y1 = cy
              /\ selectionInProgress'
              /\ ~rowSelectionInProgress'
              /\ ~columnSelectionInProgress'
              /\ editCell' = [x |-> -1, y |-> -1]]_vars

----------------------------------------------------------------------------
(* Claims about the pointer release, under Spec.  The release is the one   *)
(* event of Spec that is not counted in steps.                             *)
PointerUpStep == steps' = steps

(* C22: after any pointer-up, from any reachable state, no cell, row or    *)
(* column selection drag, no column or row resize and no fill-handle drag  *)
(* is in progress, and the resize contexts are discarded.                  *)
C22_PointerUpReturnsToIdle ==
    [][PointerUpStep =>
          /\ ~selectionInProgress'
          /\ ~rowSelectionInProgress'
          /\ ~columnSelectionInProgress'
          /\ ~knobDragInProgress'
          /\ columnResize' = NoResize
          /\ rowResize' = NoResize]_vars

(* The press at (152, 10), on the boundary between columns 0 and 1, began  *)
(* a column resize; its release has discarded the context.                 *)
C22_Witness ==
    /\ mouse = [down |-> FALSE, at |-> <<152, 10>>, clicks |-> 1]
    /\ columnResize = NoResize
    /\ ~selectionInProgress
    /\ steps = 1

----------------------------------------------------------------------------
(* Claims about the paste, under SpecImport.                               *)
ImportStep == ~pasteDone /\ pasteDone'

(* C23: with nothing selected (x1 or y1 of the selection is -1) a paste,   *)
(* whether its clipboard is imported as plain text or as HTML, calls       *)
(* onChange zero times and leaves the selection unchanged.                 *)
C23_PasteWithoutAnchorDropped ==
    [][(ImportStep /\ (selection.x1 = -1 \/ selection.y1 = -1)) =>
          /\ onChangeCalls' = 0
          /\ changes' = << >>
          /\ selection' = selection]_vars

(* A paste of an HTML table was handled while only the rows of the         *)
(* selection were defined, and nothing was written.                        *)
C23_Witness ==
    /\ pasteDone
    /\ "text/html" \in windowArgs.types
    /\ windowArgs.html = Element("DIV", << TwoRows >>)
    /\ selection = [x1 |-> -1, y1 |-> 0, x2 |-> -1, y2 |-> 0]
    /\ onChangeCalls = 0

RECURSIVE ContainsTable(_)
ContainsTable(element) ==
    \E i \in 1..Len(element.children) :
        element.children[i].nodeName = "TABLE" \/ ContainsTable(element.children[i])

(* C24: the HTML import of a payload with no table element in it calls     *)
(* onChange not at all and leaves the selection unchanged.                 *)
C24_HtmlWithoutTableIsNoOp ==
    [][(ImportStep /\ "text/html" \in windowArgs.types /\ ~ContainsTable(windowArgs.html)) =>
          /\ onChangeCalls' = 0
          /\ changes' = << >>
          /\ selection' = selection]_vars

(* A payload of a paragraph and a span was pasted on the cell (2,3).       *)
C24_Witness ==
    /\ pasteDone
    /\ "text/html" \in windowArgs.types
    /\ Len(windowArgs.html.children) = 2
    /\ ~ContainsTable(windowArgs.html)
    /\ selection = [x1 |-> 2, y1 |-> 3, x2 |-> 2, y2 |-> 3]
    /\ onChangeCalls = 0

----------------------------------------------------------------------------
(* Claims about the clipboard export, under SpecCopy.                      *)

(* The cells of the normalized selection, row by row, each with the text   *)
(* it is exported as.                                                      *)
ExportCells ==
    LET a == Normalized(selection)
        width == a.x2 - a.x1 + 1
        height == a.y2 - a.y1 + 1
    IN  [i \in 1..(width * height) |->
            LET x == a.x1 + ((i - 1) % width)
                y == a.y1 + ((i - 1) \div width)
            IN  [x |-> x, y |-> y,
                 value |-> IF editData(x, y) = Null THEN << >> ELSE editData(x, y)]]

(* C25: the text exported for a fully defined selection is, over its       *)
(* normalized rectangle, the edit values of the cells row by row from the  *)
(* top, left to right within a row, a tab between two cells of a row and   *)
(* a newline between two rows, with the empty string for a null value.     *)
C25_ExportJoinsRows ==
    (windowResult # NoWindow /\ SelectionDefined) =>
        windowResult.value = Joined(ExportCells, 1)

(* The selection from (1,1) back to (0,0) over the edit data [[p, null],   *)
(* [q, r]] is exported as "p\t\nq\tr".                                     *)
C25_Witness ==
    /\ windowResult # NoWindow
    /\ selection = [x1 |-> 1, y1 |-> 1, x2 |-> 0, y2 |-> 0]
    /\ windowResult.value = << "p", "\t", "\n", "q", "\t", "r" >>

----------------------------------------------------------------------------
(* Claims about the repaint, under SpecRepaint.                            *)

(* C26: at most one repaint is pending at any time, and a repaint that was *)
(* cancelled, because a dependency changed before it ran, never runs.      *)
C26_OneRepaintPending ==
    /\ Cardinality(animationFrames.pending) <= 1
    /\ \A i \in 1..Len(animationFrames.painted) :
          animationFrames.painted[i] \notin animationFrames.cancelled

(* Two renders came before the first frame could run: frames 1 and 2 are   *)
(* cancelled and frame 3 alone is pending.                                 *)
C26_Witness ==
    /\ animationFrames.cancelled = {1, 2}
    /\ animationFrames.pending = {3}
    /\ animationFrames.painted = << >>

----------------------------------------------------------------------------
(* Claims about the scroll-follow, under SpecFollow.                       *)
OneApart(a, b) == a = b \/ a = b + 1 \/ a = b - 1

RequestFollows(result) ==
    /\ result.newDataOffset.x # windowArgs.dataOffset.x =>
          result.scroll.left = result.newDataOffset.x * 30
    /\ result.newDataOffset.y # windowArgs.dataOffset.y =>
          result.scroll.top = result.newDataOffset.y * 30

(* C27: for every frozen count and every prior offset, the new  *)
(* offset on each axis differs from the old one by 0, +1 or -1, and the    *)
(* scroll position asked of the host on a changed axis is the new offset   *)
(* times 30.                                                               *)
C27_FollowByOneCell ==
    windowResult # NoWindow =>
        /\ OneApart(windowResult.newDataOffset.x, windowArgs.dataOffset.x)
        /\ OneApart(windowResult.newDataOffset.y, windowArgs.dataOffset.y)
        /\ RequestFollows(windowResult)

----------------------------------------------------------------------------
(* Claims about the points absCoordianteToCell cannot place, under         *)
(* SpecPixel.                                                              *)
OutsideSpans(w, abs) == \A i \in 1..Len(w.visible) : abs < w.start[i] \/ abs > w.end[i]

(* C28: a point outside every span of the window on an axis, such as one   *)
(* in the header band, resolves on that axis to a result that is no cell   *)
(* index, index 0 included.                                                *)
C28_OutsideIsNoCell ==
    windowResult # NoWindow =>
        /\ OutsideSpans(Columns, windowArgs.absX) => windowResult.cell.x \notin Nat
        /\ OutsideSpans(Rows, windowArgs.absY) => windowResult.cell.y \notin Nat

(* C29: spans are half-open: a point on the boundary shared by two         *)
(* consecutive window entries, end[i] = start[i+1], resolves on that axis  *)
(* to visible[i+1], not to visible[i].                                     *)
OnSharedBoundary(w, i, abs) == w.end[i] = w.start[i + 1] /\ abs = w.end[i]

C29_BoundaryBelongsToNext ==
    windowResult # NoWindow =>
        /\ \A i \in 1..(Len(Columns.visible) - 1) :
              OnSharedBoundary(Columns, i, windowArgs.absX) =>
                  windowResult.cell.x = Columns.visible[i + 1]
        /\ \A i \in 1..(Len(Rows.visible) - 1) :
              OnSharedBoundary(Rows, i, windowArgs.absY) =>
                  windowResult.cell.y = Rows.visible[i + 1]

----------------------------------------------------------------------------
(* Claims about cellToAbsCoordinate outside the window, under SpecBeyond.  *)
RECURSIVE SizesBetween(_, _, _, _)
SizesBetween(sizeProp, defaultValue, last, cell) ==
    IF cell <= last + 1 THEN 0
    ELSE SizesBetween(sizeProp, defaultValue, last, cell - 1)
         + createRowOrColumnPropFunction(sizeProp, defaultValue, cell - 1)

(* C30: for every frozen count, offset and cell past the last visible      *)
(* index, cellToAbsCoordinate gives the end of the last window entry plus  *)
(* the sizes of the indices strictly between the last visible index and    *)
(* the cell: the start the window would give the cell if it reached it.    *)
C30_BeyondWindowAgrees ==
    windowResult # NoWindow =>
        windowResult.abs =
            Last(windowResult.window.end)
            + SizesBetween(windowArgs.sizeProp, windowArgs.defaultValue,
                           Last(windowResult.window.visible), windowResult.cell)

----------------------------------------------------------------------------
(* Claims about the two flavours of one grid, under SpecGrid.              *)
ImportedAsText(sel, text) ==
    LET loc == PasteLocation(sel)
        rows == SplitLines(text, 1, << >>)
    IN  IF loc.x = -1 \/ loc.y = -1
        THEN [changes |-> << >>, selection |-> sel]
        ELSE [changes |-> PasteRows(rows, 1, loc.x, loc.y),
              selection |-> [x1 |-> loc.x, y1 |-> loc.y,
                             x2 |-> PasteX2(rows, 1, loc.x, loc.x),
                             y2 |-> loc.y + Len(rows) - 1]]

ImportedAsHtml(sel, div) ==
    LET loc == PasteLocation(sel)
        tableNode == findTable(div)
    IN  IF HtmlDropped(loc, tableNode)
        THEN [changes |-> << >>, selection |-> sel]
        ELSE LET r == HtmlTable(tableNode.children, 1, loc.x,
                                [x |-> loc.x, y |-> loc.y, changes |-> << >>])
             IN  [changes |-> r.changes,
                  selection |-> [x1 |-> loc.x, y1 |-> loc.y, x2 |-> r.x - 1, y2 |-> r.y - 1]]

(* C31: for every grid of values with at least one row, ragged ones        *)
(* included, and every anchor, the import of the grid as a table of TR and *)
(* TD cells gives the same ordered list of changes and the same final      *)
(* selection as its import as text with tabs and line feeds.               *)
C31_ImportsAgree ==
    pasteDone =>
        LET asText == ImportedAsText(windowArgs.selection, clipboardText)
            asHtml == ImportedAsHtml(windowArgs.selection, windowArgs.html)
            done == [changes |-> changes, selection |-> selection]
        IN  /\ done = (IF "text/html" \in windowArgs.types THEN asHtml ELSE asText)
            /\ asText = asHtml

----------------------------------------------------------------------------
(* Claims about overlapping click targets, under SpecHit.                  *)
HoldingTargets(x, y) ==
    {i \in 1..Len(InsertedTargets) : StrictlyInside(InsertedTargets[i], x, y)}

(* C32: when two inserted click targets both hold the pointer pixel, the   *)
(* lookup resolves the one inserted last.                                  *)
C32_LatestTargetWins ==
    windowResult # NoWindow =>
        LET holding == HoldingTargets(windowArgs.x, windowArgs.y)
        IN  Cardinality(holding) > 1 =>
                \A i \in holding :
                    (\A j \in holding : j <= i) => windowResult.hitTarget = InsertedTargets[i]

----------------------------------------------------------------------------
(* Claims about the batch of a fill drag, under SpecFill.                  *)
ChangesAt(batch, cell) == {i \in 1..Len(batch) : batch[i].x = cell[1] /\ batch[i].y = cell[2]}

(* C33: the release of a fill drag emits one batch with exactly one change *)
(* for each cell of the candidate area outside the fixed region and none   *)
(* for a cell of the fixed region or outside the candidate area; the batch *)
(* is empty when the candidate area is the fixed region.                   *)
C33_OneChangePerDestination ==
    [][FillReleaseStep =>
        /\ onChangeCalls' = 1
        /\ \A cell \in CellsIn(knobArea) \ CellsIn(selection) :
              Cardinality(ChangesAt(changes', cell)) = 1
        /\ \A cell \in CellsIn(selection) : ChangesAt(changes', cell) = {}
        /\ \A i \in 1..Len(changes') : <<changes'[i].x, changes'[i].y>> \in CellsIn(knobArea)
        /\ CellsIn(knobArea) = CellsIn(selection) => changes' = << >>]_vars

(* The fixed region (0,0)-(0,0) has been extended two columns to the       *)
(* right: one change for (1,0) and one for (2,0).                          *)
C33_Witness ==
    /\ selection = [x1 |-> 0, y1 |-> 0, x2 |-> 2, y2 |-> 0]
    /\ ~knobDragInProgress
    /\ onChangeCalls = 1
    /\ Len(changes) = 2
    /\ ChangesAt(changes, <<1, 0>>) = {1}
    /\ ChangesAt(changes, <<2, 0>>) = {2}

----------------------------------------------------------------------------
(* Claims about the arrow-commit mode, under SpecMode.                     *)
HandledEvent(event) == windowArgs' # windowArgs /\ windowArgs'.event = event
HandledKey(event, key) == HandledEvent(event) /\ windowArgs'.key = key

(* the cell under the pointer of a double click *)
ClickedCell == [x |-> SpanIndex(Columns, mouse.at[1]), y |-> SpanIndex(Rows, mouse.at[2])]

(* the step opens the editor, or opens it again, on a cell that is not     *)
(* read-only                                                               *)
EditStarts ==
    \/ /\ HandledKey("onGridKeyDown", "a") \/ HandledKey("onGridKeyDown", "Enter")
       /\ SelectionDefined
       /\ ~cellReadOnly(selection.x1, selection.y1)
    \/ HandledEvent("onDoubleClick") /\ ~cellReadOnly(ClickedCell.x, ClickedCell.y)

ArrowInEditor == \E key \in ArrowKeys : HandledKey("onKeyDown", key)

(* C34: the arrow-commit mode is on exactly when the current edit was      *)
(* started by typing a character, and off when it was started by Enter or  *)
(* by a double click: a step that starts an edit sets the mode so, and     *)
(* while the edit goes on the mode stays.  With the mode off an arrow key  *)
(* in the editor emits no change and leaves the edit state and the         *)
(* selection as they were; with the mode on it emits exactly one change,   *)
(* for the edited cell, and ends editing.                                  *)
C34_ArrowCommitMode ==
    [][/\ (EditStarts /\ editMode') =>
              (arrowKeyCommitMode' <=> HandledKey("onGridKeyDown", "a"))
       /\ (editMode /\ editMode' /\ ~EditStarts) => arrowKeyCommitMode' = arrowKeyCommitMode
       /\ (ArrowInEditor /\ editMode /\ ~arrowKeyCommitMode) =>
              /\ onChangeCalls' = 0
              /\ editCell' = editCell
              /\ editValue' = editValue
              /\ selection' = selection
       /\ (ArrowInEditor /\ editMode /\ arrowKeyCommitMode) =>
              /\ onChangeCalls' = 1
              /\ changes' = << [x |-> editCell.x, y |-> editCell.y, value |-> editValue] >>
              /\ editCell' = NotEditing]_vars

----------------------------------------------------------------------------
(* Claims about the moves of a selection drag, under SpecDrag.             *)
DragMoveStep == mouse.down /\ mouse'.down /\ steps' = steps + 1 /\ selectionInProgress

(* C35: a pointer move during a selection drag never changes the anchor    *)
(* (x1, y1); during a row selection only y2 may change (x2 keeps its       *)
(* sentinel) and during a column selection only x2 may change; the moves   *)
(* of a row or column selection leave the scroll offset as it was.         *)
C35_DragMovesOneComponent ==
    [][DragMoveStep =>
        /\ selection'.x1 = selection.x1
        /\ selection'.y1 = selection.y1
        /\ rowSelectionInProgress =>
              selection'.x2 = selection.x2 /\ dataOffset' = dataOffset
        /\ columnSelectionInProgress =>
              selection'.y2 = selection.y2 /\ dataOffset' = dataOffset]_vars

----------------------------------------------------------------------------
(* Claims about the start of an edit, under SpecMode.                      *)
EditValueOf(cell) ==
    IF editData(cell.x, cell.y) = Null THEN << >> ELSE editData(cell.x, cell.y)

(* C36: editing never starts on a read-only cell: after every step the     *)
(* cell under edit, if there is one, is not read-only, so that a double    *)
(* click or a key on a read-only cell leaves the editor closed; a step     *)
(* that opens the editor, or moves it to another cell, makes the buffer    *)
(* the edit value of the cell, or the empty string when that is null.      *)
C36_NoEditOfReadOnly ==
    [][/\ editMode' => ~cellReadOnly(editCell'.x, editCell'.y)
       /\ (editMode' /\ editCell' # editCell) => editValue' = EditValueOf(editCell')]_vars

(* The editor was opened by a double click on the button of cell (0,1),    *)
(* whose edit value is q.                                                  *)
C36_Witness ==
    /\ windowArgs # NoWindowArgs
    /\ windowArgs.event = "onDoubleClick"
    /\ editCell = [x |-> 0, y |-> 1]
    /\ editValue = <<"q">>

----------------------------------------------------------------------------
(* Claims about the cell under edit and the selection, under SpecMode.     *)
(* C37: while a cell is under edit it is the anchor of the selection: in   *)
(* every reachable state with editCell other than (-1,-1), editCell.x is   *)
(* selection.x1 and editCell.y is selection.y1.                            *)
C37_EditCellIsAnchor ==
    editMode => editCell.x = selection.x1 /\ editCell.y = selection.y1

----------------------------------------------------------------------------
(* Claims about the scroll offset, under Spec.                             *)
(* C38: the scroll offset is never negative: in every state reached by     *)
(* pointer, keyboard, paste and scroll events, dataOffset.x >= 0 and       *)
(* dataOffset.y >= 0.                                                      *)
C38_OffsetNotNegative ==
    dataOffset.x >= 0 /\ dataOffset.y >= 0

----------------------------------------------------------------------------
(* Claims about the start of a resize, under SpecGrab.                     *)
(* C39: whenever a resize starts, the captured index is 0 or more and is   *)
(* the index of the window entry that ends at the grabbed boundary, for    *)
(* every scroll offset and frozen count, the boundary at the start of the  *)
(* first visible entry and the one between the frozen block and the        *)
(* scrolled entries included.                                              *)
C39_ResizeTargetsGrabbedCell ==
    windowResult # NoWindow =>
        LET w == windowResult.window
        IN  /\ windowResult.resize.idx >= 0
            /\ \E j \in 1..Len(w.visible) :
                  /\ Abs(w.end[j] - windowArgs.x) < 4
                  /\ windowResult.resize.idx = w.visible[j]

----------------------------------------------------------------------------
(* Claims about the loop of calculateRowsOrColsSizes, under SpecLoop.      *)
PositiveSizes ==
    IF windowArgs.version = "part_000"
    THEN windowArgs.size > 0
    ELSE \A c \in 0..LastSizedCell :
            createRowOrColumnPropFunction(windowArgs.sizeProp, windowArgs.defaultValue, c) > 0

LoopBroken == windowResult # NoWindow /\ windowResult.done

ReturnedWindow ==
    IF windowArgs.version = "part_000"
    THEN calculateRowsOrColsSizesPart000(windowArgs.size, windowArgs.startingIndex,
                                         windowArgs.startingSize, windowArgs.visibleArea)
    ELSE calculateRowsOrColsSizes(windowArgs.freezeCount, windowArgs.sizeProp,
                                  windowArgs.defaultValue, windowArgs.startingSize,
                                  windowArgs.startingIndex, windowArgs.visibleArea)

(* The runs with HalvingSizes in which the loop is entered with the extent *)
(* further away than twice the size of the first cell it pushes.  The      *)
(* cells from that one on add up to less than twice its size.              *)
HalvingStalls ==
    /\ windowArgs.version = "SheetCopy.jsx"
    /\ windowArgs.sizeProp = HalvingSizes
    /\ LET w0 == BeforeLoop(windowArgs.freezeCount, windowArgs.sizeProp,
                            windowArgs.defaultValue, windowArgs.startingSize,
                            windowArgs.startingIndex)
           first == ResumeIndex(windowArgs.freezeCount, windowArgs.startingIndex)
       IN  windowArgs.visibleArea - Last(w0.end) > 2 * HalvingSizes.fn[first]

(* In such a run the loop has not broken, and the window built so far ends *)
(* short of the extent by more than twice the size of the cell the next    *)
(* pass pushes (after the pass for the cell LastSizedCell: by more than    *)
(* the size of that cell), so the next pass does not reach the extent and  *)
(* leaves the same true of the pass after it, however far the size         *)
(* function is given.  A run that does not break pushes an entry in every  *)
(* pass, so its states never repeat: the model follows it up to            *)
(* LastSizedCell, and this invariant speaks for the passes after it.       *)
HalvingGapStaysOpen ==
    (windowResult # NoWindow /\ HalvingStalls) =>
        LET w == windowResult.window
            gap == windowArgs.visibleArea - Last(w.end)
        IN  /\ ~windowResult.done
            /\ IF windowResult.ind <= LastSizedCell
               THEN gap > 2 * HalvingSizes.fn[windowResult.ind]
               ELSE gap > Last(w.end) - Last(w.start)

(* Every other run with positive sizes, the other runs with HalvingSizes   *)
(* among them, breaks within the cells the size function is given for.     *)
BreaksOtherwise ==
    (PositiveSizes /\ ~HalvingStalls) => <>LoopBroken

====
